---- MODULE Spec2Model ----
(***************************************************************************)
(* State-machine model of the scheduling and execution-tracking engine of  *)
(* cursor-agent-scheduler: SchedulerService (schedulerService.ts),         *)
(* ExecutionEngine (executionEngine.ts) and StorageManager                 *)
(* (storage/storageManager.ts).                                            *)
(*                                                                         *)
(* JavaScript runs one callback at a time; an async function runs          *)
(* synchronously up to its first await on a pending promise.  Every action *)
(* below is one such uninterrupted stretch of code: a timer callback, an   *)
(* API call up to the point where it waits for I/O, or the continuation    *)
(* that runs once the awaited promise has settled.                         *)
(***************************************************************************)
EXTENDS Integers, Sequences, FiniteSets, Bags, TLC

\* ---------------------------------------------------------------- bounds
MaxTime == 1          \* the clock stops ticking here
MaxRuns == 2          \* run ids generated by execute
MaxPendingCancels == 1 \* cancelExecution calls of one run awaiting their save
PollSpread == 1       \* Math.floor(Math.random() * maxPolls) is drawn from 0..PollSpread
MaxOps == 2           \* schedule-management calls in flight at once
MaxCalls == 3         \* schedule-management calls made in a run of the model
MaxTimeManagement == 2 \* where the clock stops next to schedule management
MaxSchedules == 3     \* length of the schedules array of the document
MaxIntervals == 2     \* live setInterval sweeps
MaxSaves == 1002      \* records saved when the history is filled past its cap
VariedSaves == 3      \* the first records saved are of either outcome
MaxCronTime == 12     \* where the clock stops when cron expressions are evaluated
MaxTemplate == 6      \* pieces of a prompt template
MaxTemplateTime == 1  \* where the clock stops when prompts are built
MaxTimeTrigger == 3   \* where the clock stops when the triggers run under fairness

\* ------------------------------------------------------ program constants
HistoryCap == 1000    \* saveRunRecord: history.slice(0, 1000)
maxPolls == 10        \* executeCloud: const maxPolls = 10
minPolls == 3         \* executeCloud: Math.floor(Math.random() * maxPolls) + 3

\* Optional values (a field that may be undefined).
None == <<>>
Some(x) == <<x>>
IsSome(o) == o /= None
Val(o) == o[1]

Min(a, b) == IF a < b THEN a ELSE b

\* (Date.now() - startTime.getTime()) / 1000, with the clock in minutes.
ElapsedSeconds(startTime, t) == (t - startTime) * 60

\* ------------------------------------------------------------- schedules
\* The fields of Schedule that the engine reads.  cron is one of the
\* expressions of CronPeriod or a malformed string; promptTemplate "" and
\* commandRef "" stand for an absent value (both are falsy in the code);
\* maxRuntime, in seconds, is 0 when constraints.maxRuntime is absent or 0
\* (both falsy in `maxRuntime && ...`).
MkSchedule(id, enabled, cron, targetType, promptTemplate, commandRef, executionMode, maxRuntime) ==
    [id |-> id, enabled |-> enabled, cron |-> cron, targetType |-> targetType,
     promptTemplate |-> promptTemplate, commandRef |-> commandRef,
     executionMode |-> executionMode, maxRuntime |-> maxRuntime]

\* Ids callers pass to runSchedule: s1 is stored, s2 is unknown, t1 is the id
\* of an unsaved schedule the editor test-runs.
ScheduleIds == {"s1", "s2", "t1"}

ExecutionModes == {"ide", "cloud"}

\* The schedule document at start-up: one enabled schedule that runs every
\* minute, with a max-runtime constraint of 30 seconds, in either mode.
InitialSchedules(mode) ==
    << MkSchedule("s1", TRUE, "* * * * *", "prompt", "p", "", mode, 30) >>

\* Schedule objects handed to runScheduleDirect: a command schedule whose
\* command file is gone, and the editor's test run of a schedule that has
\* neither prompt nor command.
TestSchedules ==
    { MkSchedule("s1", TRUE, "* * * * *", "command", "", "cmdX", "ide", 0),
      MkSchedule("t1", TRUE, "* * * * *", "prompt", "", "", "ide", 0) }

\* Commands the registry resolves.
RegisteredCommands == {"cmdA"}

\* Schedule objects handed to addSchedule and updateSchedule: a new schedule,
\* the same with a cron expression that does not parse, and the stored
\* schedule turned into a command schedule whose command file is gone.
ManagedSchedules ==
    { MkSchedule("s2", TRUE, "* * * * *", "prompt", "p", "", "ide", 0),
      MkSchedule("s2", TRUE, "every minute", "prompt", "p", "", "ide", 0),
      MkSchedule("s1", TRUE, "* * * * *", "command", "", "cmdX", "ide", 0) }

\* Ids handed to removeSchedule, enableSchedule and disableSchedule.
ManagedIds == {"s1", "s2"}

VARIABLES
    now,                \* Date.now(), in minutes
    repoSchedules,      \* the schedules array of .cursor/agent-schedules.json
    userOverrides,      \* workspaceState[USER_OVERRIDES]: id -> enabled override
    runHistory,         \* workspaceState[RUN_HISTORY], newest first
    jobs,               \* SchedulerService.jobs: id -> ScheduledJob
    timers,             \* the pending setTimeout callbacks, a bag of [sid, due, current]
    intervals,          \* number of live setInterval sweeps
    executions,         \* the RunningExecution objects ever created: runId -> object
    runningExecutions,  \* keys of ExecutionEngine.runningExecutions
    tasks,              \* per run: where executeLocal / executeCloud stands, and its runRecord
    pendingCancels,     \* per run: cancelExecution calls waiting for their saveRunRecord
    nextRunId,          \* next run id generateRunId returns
    ops,                \* SchedulerService calls suspended at an await, oldest wait first
    disabledIds,        \* ids whose disableSchedule completed, no enableSchedule called since
    addedIds,           \* ids whose addSchedule completed, no removeSchedule called since
    calls,              \* number of schedule-management calls made so far
    prompt,             \* the prompt last built by substituteVariables, if any
    disposed            \* dispose() has run

vars == << now, repoSchedules, userOverrides, runHistory, jobs, timers,
           intervals, executions, runningExecutions, tasks, pendingCancels,
           nextRunId, ops, disabledIds, addedIds, calls, prompt, disposed >>

RunIds == 1..MaxRuns


\* Finite maps as functions whose domain grows and shrinks.
Put(f, k, v) == [x \in (DOMAIN f) \cup {k} |-> IF x = k THEN v ELSE f[x]]
Drop(f, k) == [x \in (DOMAIN f) \ {k} |-> f[x]]
EmptyMap == [x \in {} |-> 0]

\* ------------------------------------------------------------- cron
\* The clock counts minutes, the granularity of a 5-field cron expression.
\* The period, in minutes, of the cron expressions the model uses.
CronPeriod(cron) ==
    CASE cron = "* * * * *" -> 1
      [] cron = "*/2 * * * *" -> 2
      [] OTHER -> 0

validateCronExpression(cron) == CronPeriod(cron) > 0

\* getNextRunTime with an inclusive next(): an occurrence at t itself is
\* returned.
getNextRunTime_inclusive(cron, t) ==
    IF CronPeriod(cron) > 0
    THEN Some(((t + CronPeriod(cron) - 1) \div CronPeriod(cron)) * CronPeriod(cron))
    ELSE None

\* cron-parser's interval.next(): the first occurrence strictly after t;
\* undefined when parseExpression throws.
getNextRunTime(cron, t) ==
    IF CronPeriod(cron) > 0
    THEN Some(((t \div CronPeriod(cron)) + 1) * CronPeriod(cron))
    ELSE None

\* ------------------------------------------------------------- storage
\* loadSchedules with `enabled: override.enabled`, without the test for
\* undefined: an override that has no enabled value reads as not enabled.
loadSchedulesFrom_overrideAlways(repo, overrides) ==
    [i \in 1..Len(repo) |->
        IF repo[i].id \in DOMAIN overrides
        THEN [repo[i] EXCEPT !.enabled = IsSome(overrides[repo[i].id])
                                           /\ Val(overrides[repo[i].id])]
        ELSE repo[i]]

\* StorageManager.loadSchedules: the document's schedules with the override's
\* enabled value, when there is one, in place of the document's.
loadSchedulesFrom(repo, overrides) ==
    [i \in 1..Len(repo) |->
        IF repo[i].id \in DOMAIN overrides /\ IsSome(overrides[repo[i].id])
        THEN [repo[i] EXCEPT !.enabled = Val(overrides[repo[i].id])]
        ELSE repo[i]]

loadSchedules == loadSchedulesFrom(repoSchedules, userOverrides)

\* schedules.find(s => s.id === id): the first match, or None.
findSchedule(schedules, id) ==
    LET hits == {i \in 1..Len(schedules) : schedules[i].id = id}
    IN IF hits = {} THEN None
       ELSE Some(schedules[CHOOSE i \in hits : \A j \in hits : i <= j])

\* saveRunRecord with push in place of unshift.
saveRunRecord_push(history, record, ok) ==
    IF ok
    THEN SubSeq(history \o <<record>>, 1, Min(Len(history) + 1, HistoryCap))
    ELSE history

\* StorageManager.saveRunRecord: unshift, keep the first 1000.  ok = FALSE is
\* workspaceState.update rejecting: nothing is written and the promise rejects.
saveRunRecord(history, record, ok) ==
    IF ok
    THEN SubSeq(<<record>> \o history, 1, Min(Len(history) + 1, HistoryCap))
    ELSE history

\* CommandRegistry.getCommand: the command, or None.
getCommand(commandId) ==
    IF commandId \in RegisteredCommands THEN Some(commandId) ELSE None

\* ------------------------------------------------------ execution engine
\* The state the scheduler and the engine work on, as one value, so that an
\* operation can call another.  result is what the call returned or threw;
\* overflow is set when the model's run ids are used up.
Cur ==
    [jobs |-> jobs, timers |-> timers,
     executions |-> executions, runningExecutions |-> runningExecutions,
     tasks |-> tasks, runHistory |-> runHistory, nextRunId |-> nextRunId,
     result |-> "", overflow |-> FALSE]

\* The predicate both scans of the running-executions map use (execute and
\* isScheduleRunning): e => e.schedule.id === id && !e.cancelled; and the same
\* predicate with the negation lost.
activeFor_cancelledOnly(execution, scheduleId) ==
    execution.schedule.id = scheduleId /\ execution.cancelled

\* The same predicate without the comparison of the schedule id: one lock
\* for all schedules.
activeFor_anySchedule(execution, scheduleId) == ~execution.cancelled

\* The predicate that finds no run active: no single-flight lock at all.
activeFor_never(execution, scheduleId) == FALSE

activeFor(execution, scheduleId) ==
    execution.schedule.id = scheduleId /\ ~execution.cancelled

\* ExecutionEngine.isScheduleRunning.
isScheduleRunningIn(st, scheduleId) ==
    \E r \in st.runningExecutions : activeFor(st.executions[r], scheduleId)

isScheduleRunning(scheduleId) == isScheduleRunningIn(Cur, scheduleId)

\* A task: pc is where the run's code is suspended, record is the runRecord
\* object it holds, pollCount the cloud loop's counter.
\*   "runner"          awaiting agentRunner.executePrompt / executeCommand
\*   "poll"            the setInterval of executeCloud is live
\*   "saved"           awaiting a saveRunRecord that resolves; delete(runId) follows
\*   "trySaveFailed"   awaiting a saveRunRecord that rejects inside executeLocal's try
\*   "catchSaveFailed" awaiting a saveRunRecord that rejects inside executeLocal's catch
MkTask(pc, record) == [pc |-> pc, record |-> record, pollCount |-> 0]

\* The catch block of executeLocal without its executionTime assignment.
localCatch_noExecutionTime(st, runId, err, t, saveOk) ==
    LET record == [st.tasks[runId].record EXCEPT
                      !.status = "failure", !.error = err, !.finishedAt = Some(t)]
    IN [st EXCEPT
          !.runHistory = saveRunRecord(@, record, saveOk),
          !.tasks[runId] = [@ EXCEPT !.record = record,
                                     !.pc = IF saveOk THEN "saved" ELSE "catchSaveFailed"]]

\* The catch block of executeLocal, up to its await.
localCatch(st, runId, err, t, saveOk) ==
    LET execution == st.executions[runId]
        record == [st.tasks[runId].record EXCEPT
                      !.status = "failure", !.error = err,
                      !.finishedAt = Some(t),
                      !.executionTime = Some(ElapsedSeconds(execution.startTime, t))]
    IN [st EXCEPT
          !.runHistory = saveRunRecord(@, record, saveOk),
          !.tasks[runId] = [@ EXCEPT !.record = record,
                                     !.pc = IF saveOk THEN "saved" ELSE "catchSaveFailed"]]

\* executeLocal up to its first await.  st.tasks[runId] holds the runRecord.
executeLocal(st, runId, t, saveOk) ==
    LET execution == st.executions[runId]
        schedule == execution.schedule
    IN IF execution.cancelled
       THEN LET record == [st.tasks[runId].record EXCEPT
                              !.status = "failure", !.error = "cancelled",
                              !.finishedAt = Some(t)]
            IN [st EXCEPT
                  !.runHistory = saveRunRecord(@, record, saveOk),
                  !.tasks[runId] = [@ EXCEPT !.record = record,
                                             !.pc = IF saveOk THEN "saved" ELSE "trySaveFailed"]]
       ELSE IF schedule.targetType = "prompt" /\ schedule.promptTemplate /= ""
       THEN [st EXCEPT !.tasks[runId].pc = "runner"]
       ELSE IF IsSome(execution.command)
       THEN [st EXCEPT !.tasks[runId].pc = "runner"]
       ELSE localCatch(st, runId, "noPrompt", t, saveOk)

\* executeCloud: starts the poll interval and returns.
executeCloud(st, runId) == [st EXCEPT !.tasks[runId].pc = "poll"]

\* ExecutionEngine.execute.  generateRunId is modelled as a counter; an id is
\* only counted when the run is registered.  The runId and maxRuntime fields
\* of a run record are not in the code's RunRecord: they tell which run, under
\* which constraint, a history entry belongs to.
execute(st, schedule, t, saveOk) ==
    LET command == IF schedule.targetType = "command" /\ schedule.commandRef /= ""
                   THEN getCommand(schedule.commandRef) ELSE None
    IN IF schedule.targetType = "command" /\ schedule.commandRef /= "" /\ command = None
       THEN [st EXCEPT !.result = "commandNotFound"]
       ELSE IF \E r \in st.runningExecutions : activeFor(st.executions[r], schedule.id)
       THEN [st EXCEPT !.result = "alreadyRunning"]
       ELSE IF st.nextRunId > MaxRuns
       THEN [st EXCEPT !.overflow = TRUE]
       ELSE LET runId == st.nextRunId
                runRecord == [runId |-> runId, maxRuntime |-> schedule.maxRuntime,
                              scheduleId |-> schedule.id,
                              startedAt |-> t, status |-> "running", error |-> "",
                              finishedAt |-> None, executionTime |-> None]
                execution == [schedule |-> schedule, command |-> command,
                              startTime |-> t, cancelled |-> FALSE]
                st1 == [st EXCEPT
                          !.executions = Put(@, runId, execution),
                          !.runningExecutions = @ \cup {runId},
                          !.tasks = Put(@, runId, MkTask("new", runRecord)),
                          !.nextRunId = @ + 1,
                          !.result = "ok"]
            IN IF schedule.executionMode = "ide"
               THEN executeLocal(st1, runId, t, saveOk)
               ELSE executeCloud(st1, runId)

\* handleExecutionResult without its status and error assignments.
handleExecutionResult_statusKept(st, runId, success, t, saveOk) ==
    LET execution == st.executions[runId]
        record == [st.tasks[runId].record EXCEPT
                      !.finishedAt = Some(t),
                      !.executionTime = Some(ElapsedSeconds(execution.startTime, t))]
    IN [st EXCEPT
          !.runHistory = saveRunRecord(@, record, saveOk),
          !.tasks[runId] = [@ EXCEPT !.record = record,
                                     !.pc = IF saveOk THEN "saved" ELSE "trySaveFailed"]]

\* handleExecutionResult with a retry: a failed run arms a timer that calls
\* executeSchedule at once.
handleExecutionResult_retryOnFailure(st, runId, success, t, saveOk) ==
    LET execution == st.executions[runId]
        actualTime == ElapsedSeconds(execution.startTime, t)
        maxRuntime == execution.schedule.maxRuntime
        old == st.tasks[runId].record
        failed == (maxRuntime /= 0 /\ actualTime > maxRuntime) \/ ~success
        record == [old EXCEPT
                      !.status = IF failed THEN "failure" ELSE "success",
                      !.error = IF maxRuntime /= 0 /\ actualTime > maxRuntime THEN "maxRuntime"
                                ELSE IF success THEN "" ELSE "runner",
                      !.finishedAt = Some(t),
                      !.executionTime = Some(actualTime)]
    IN [st EXCEPT
          !.runHistory = saveRunRecord(@, record, saveOk),
          !.timers = IF failed
                     THEN @ (+) SetToBag({[sid |-> execution.schedule.id, due |-> t,
                                             current |-> FALSE]})
                     ELSE @,
          !.tasks[runId] = [@ EXCEPT !.record = record,
                                     !.pc = IF saveOk THEN "saved" ELSE "trySaveFailed"]]

\* handleExecutionResult up to its await.
handleExecutionResult(st, runId, success, t, saveOk) ==
    LET execution == st.executions[runId]
        actualTime == ElapsedSeconds(execution.startTime, t)
        maxRuntime == execution.schedule.maxRuntime
        old == st.tasks[runId].record
        record == [old EXCEPT
                      !.status = IF maxRuntime /= 0 /\ actualTime > maxRuntime THEN "failure"
                                 ELSE IF success THEN "success" ELSE "failure",
                      !.error = IF maxRuntime /= 0 /\ actualTime > maxRuntime THEN "maxRuntime"
                                ELSE IF success THEN "" ELSE "runner",
                      !.finishedAt = Some(t),
                      !.executionTime = Some(actualTime)]
    IN [st EXCEPT
          !.runHistory = saveRunRecord(@, record, saveOk),
          !.tasks[runId] = [@ EXCEPT !.record = record,
                                     !.pc = IF saveOk THEN "saved" ELSE "trySaveFailed"]]

\* The .catch handler execute attaches to executeLocal.  (The one attached to
\* executeCloud never runs: executeCloud only starts an interval.)
executeCatchHandler(st, runId, err, t, saveOk) ==
    LET record == [st.tasks[runId].record EXCEPT
                      !.status = "failure", !.error = err, !.finishedAt = Some(t)]
    IN [st EXCEPT
          !.runHistory = saveRunRecord(@, record, saveOk),
          !.runningExecutions = @ \ {runId},
          !.tasks = Drop(@, runId)]

\* One callback of executeCloud's interval.  threshold is
\* Math.floor(Math.random() * maxPolls) + 3.
pollCallback(st, runId, threshold, t, saveOk) ==
    LET execution == st.executions[runId]
        pollCount == st.tasks[runId].pollCount + 1
    IN IF execution.cancelled
       THEN [st EXCEPT !.tasks = Drop(@, runId)]
       ELSE IF pollCount >= threshold
       THEN LET record == [st.tasks[runId].record EXCEPT
                              !.status = "success",
                              !.finishedAt = Some(t),
                              !.executionTime = Some(ElapsedSeconds(execution.startTime, t))]
            IN IF saveOk
               THEN [st EXCEPT
                       !.runHistory = saveRunRecord(@, record, TRUE),
                       !.tasks[runId] = [@ EXCEPT !.record = record, !.pc = "saved",
                                                  !.pollCount = pollCount]]
               ELSE \* the rejection is unhandled: the callback ends here
                    [st EXCEPT !.tasks = Drop(@, runId)]
       ELSE [st EXCEPT !.tasks[runId].pollCount = pollCount]

\* cancelExecution without `execution.cancelled = true`.
cancelExecution_noFlag(st, runId, t, saveOk) ==
    IF runId \notin st.runningExecutions THEN [st EXCEPT !.result = "false"] ELSE
    LET execution == st.executions[runId]
        record == [runId |-> runId, maxRuntime |-> execution.schedule.maxRuntime,
                   scheduleId |-> execution.schedule.id,
                   startedAt |-> execution.startTime, status |-> "failure",
                   error |-> "cancelledByUser", finishedAt |-> Some(t),
                   executionTime |-> Some(ElapsedSeconds(execution.startTime, t))]
    IN [st EXCEPT
          !.runHistory = saveRunRecord(@, record, saveOk),
          !.result = IF saveOk THEN "pending" ELSE "error"]

\* ExecutionEngine.cancelExecution up to its await.  result is "false" when
\* it returned false, "error" when its saveRunRecord rejects, and "pending"
\* when it is suspended at a saveRunRecord that will resolve.
cancelExecution(st, runId, t, saveOk) ==
    IF runId \notin st.runningExecutions THEN [st EXCEPT !.result = "false"] ELSE
    LET execution == st.executions[runId]
        record == [runId |-> runId, maxRuntime |-> execution.schedule.maxRuntime,
                   scheduleId |-> execution.schedule.id,
                   startedAt |-> execution.startTime, status |-> "failure",
                   error |-> "cancelledByUser", finishedAt |-> Some(t),
                   executionTime |-> Some(ElapsedSeconds(execution.startTime, t))]
    IN [st EXCEPT
          !.executions[runId].cancelled = TRUE,
          !.runHistory = saveRunRecord(@, record, saveOk),
          !.result = IF saveOk THEN "pending" ELSE "error"]

\* ------------------------------------------------------------- scheduler
\* runSchedule with its two checks in the other order.
runSchedule_busyFirst(st, schedules, scheduleId, t, saveOk) ==
    LET found == findSchedule(schedules, scheduleId)
    IN IF isScheduleRunningIn(st, scheduleId)
       THEN [st EXCEPT !.result = "alreadyRunning"]
       ELSE IF found = None THEN [st EXCEPT !.result = "notFound"]
       ELSE execute(st, Val(found), t, saveOk)

\* SchedulerService.runSchedule, given what loadSchedules returned.
runSchedule(st, schedules, scheduleId, t, saveOk) ==
    LET found == findSchedule(schedules, scheduleId)
    IN IF found = None THEN [st EXCEPT !.result = "notFound"]
       ELSE IF isScheduleRunningIn(st, scheduleId)
       THEN [st EXCEPT !.result = "alreadyRunning"]
       ELSE execute(st, Val(found), t, saveOk)

\* SchedulerService.runScheduleDirect.
runScheduleDirect(st, schedule, t, saveOk) ==
    IF isScheduleRunningIn(st, schedule.id)
    THEN [st EXCEPT !.result = "alreadyRunning"]
    ELSE execute(st, schedule, t, saveOk)

\* A pending timeout is [sid, due, current]: the callback will call
\* executeSchedule(sid) once `due` is reached; current says that it is the
\* handle the timer field of the job of sid in the jobs map holds.  A job's
\* timer field is TRUE when it holds a handle, pending or not.
Timer(sid, due, current) == [sid |-> sid, due |-> due, current |-> current]

CurrentTimers(pending, sid) == {tm \in BagToSet(pending) : tm.sid = sid /\ tm.current}

\* clearTimeout(job.timer), guarded by `if (job.timer)`: a handle that has
\* fired is a no-op.
clearTimeout(pending, job, sid) ==
    IF job.timer THEN pending (-) SetToBag(CurrentTimers(pending, sid)) ELSE pending

\* jobs.set(id, job) over a job whose timer is pending: nothing refers to that
\* timer any more, and it stays pending.
orphan(pending, sid) ==
    LET cur == CurrentTimers(pending, sid)
    IN (pending (-) SetToBag(cur))
         (+) SetToBag({Timer(tm.sid, tm.due, FALSE) : tm \in cur})

\* rescheduleJob without its clearTimeout.
rescheduleJob_noClear(st, scheduleId, t) ==
    IF scheduleId \notin DOMAIN st.jobs THEN st
    ELSE LET job == st.jobs[scheduleId]
             nextRun == getNextRunTime(job.schedule.cron, t)
         IN IF nextRun = None
            THEN st
            ELSE IF Val(nextRun) - t > 0
            THEN [st EXCEPT
                    !.timers = orphan(@, scheduleId)
                                 (+) SetToBag({Timer(scheduleId, Val(nextRun), TRUE)}),
                    !.jobs[scheduleId] = [@ EXCEPT !.nextRun = nextRun, !.timer = TRUE]]
            ELSE [st EXCEPT !.jobs[scheduleId] = [@ EXCEPT !.nextRun = nextRun]]

\* rescheduleJob without its setTimeout.
rescheduleJob_noTimer(st, scheduleId, t) ==
    IF scheduleId \notin DOMAIN st.jobs THEN st
    ELSE LET job == st.jobs[scheduleId]
             nextRun == getNextRunTime(job.schedule.cron, t)
         IN IF nextRun = None
            THEN [st EXCEPT !.timers = clearTimeout(@, job, scheduleId)]
            ELSE [st EXCEPT
                    !.timers = clearTimeout(@, job, scheduleId),
                    !.jobs[scheduleId] = [@ EXCEPT !.nextRun = nextRun]]

\* SchedulerService.rescheduleJob.
rescheduleJob(st, scheduleId, t) ==
    IF scheduleId \notin DOMAIN st.jobs THEN st
    ELSE LET job == st.jobs[scheduleId]
             cleared == clearTimeout(st.timers, job, scheduleId)
             nextRun == getNextRunTime(job.schedule.cron, t)
         IN IF nextRun = None
            THEN [st EXCEPT !.timers = cleared]
            ELSE IF Val(nextRun) - t > 0
            THEN [st EXCEPT
                    !.timers = cleared (+) SetToBag({Timer(scheduleId, Val(nextRun), TRUE)}),
                    !.jobs[scheduleId] = [@ EXCEPT !.nextRun = nextRun, !.timer = TRUE]]
            ELSE [st EXCEPT
                    !.timers = cleared,
                    !.jobs[scheduleId] = [@ EXCEPT !.nextRun = nextRun]]

\* scheduleJob without its `if (!nextRun) return`: the job is stored without
\* a nextRun and without a timer.
scheduleJobAt_storesUnevaluable(st, schedule, t, t2) ==
    LET nextRun == getNextRunTime(schedule.cron, t)
    IN IF nextRun = None
       THEN [st EXCEPT
               !.timers = orphan(@, schedule.id),
               !.jobs = Put(@, schedule.id,
                            [schedule |-> schedule, nextRun |-> None, timer |-> FALSE])]
       ELSE [st EXCEPT
               !.timers = orphan(@, schedule.id)
                            (+) SetToBag({Timer(schedule.id, Val(nextRun), TRUE)}),
               !.jobs = Put(@, schedule.id,
                            [schedule |-> schedule, nextRun |-> nextRun, timer |-> TRUE])]

\* SchedulerService.scheduleJob.  It reads the clock twice: inside
\* getNextRunTime (t) and in `nextRun.getTime() - Date.now()` (t2).
scheduleJobAt(st, schedule, t, t2) ==
    LET nextRun == getNextRunTime(schedule.cron, t)
    IN IF nextRun = None THEN st
       ELSE IF Val(nextRun) - t2 > 0
       THEN [st EXCEPT
               !.timers = orphan(@, schedule.id)
                            (+) SetToBag({Timer(schedule.id, Val(nextRun), TRUE)}),
               !.jobs = Put(@, schedule.id,
                            [schedule |-> schedule, nextRun |-> nextRun, timer |-> TRUE])]
       ELSE \* past due: rescheduleJob works on the job already in the map, if any,
            \* and the new job, which has no timer, then replaces it
            LET st1 == rescheduleJob(st, schedule.id, t2)
            IN [st1 EXCEPT
                  !.timers = orphan(@, schedule.id),
                  !.jobs = Put(@, schedule.id,
                               [schedule |-> schedule, nextRun |-> nextRun, timer |-> FALSE])]

\* scheduleJob with both clock reads in the same instant.
scheduleJob(st, schedule, t) == scheduleJobAt(st, schedule, t, t)

\* SchedulerService.unscheduleJob.
unscheduleJob(st, scheduleId) ==
    IF scheduleId \notin DOMAIN st.jobs THEN st
    ELSE [st EXCEPT
            !.timers = clearTimeout(@, st.jobs[scheduleId], scheduleId),
            !.jobs = Drop(@, scheduleId)]

\* executeSchedule without the rescheduleJob of its busy branch.
executeSchedule_noRescheduleOnSkip(st, scheduleId, t, saveOk) ==
    IF scheduleId \notin DOMAIN st.jobs THEN [st EXCEPT !.result = "noJob"]
    ELSE IF isScheduleRunningIn(st, scheduleId)
    THEN [st EXCEPT !.result = "skipped"]
    ELSE rescheduleJob(execute(st, st.jobs[scheduleId].schedule, t, saveOk), scheduleId, t)

\* SchedulerService.executeSchedule.  execute has no await of its own, so the
\* rescheduleJob after `await execute` runs before any other timer or I/O
\* callback; result records what the attempt did.
executeSchedule(st, scheduleId, t, saveOk) ==
    IF scheduleId \notin DOMAIN st.jobs THEN [st EXCEPT !.result = "noJob"]
    ELSE IF isScheduleRunningIn(st, scheduleId)
    THEN [rescheduleJob(st, scheduleId, t) EXCEPT !.result = "skipped"]
    ELSE rescheduleJob(execute(st, st.jobs[scheduleId].schedule, t, saveOk), scheduleId, t)

\* The order in which a Map of jobs is walked.  Jobs of different ids do not
\* read each other's state, so the order only decides how run ids are dealt.
IdOrder == <<"s1", "s2", "t1">>

RECURSIVE checkDueFrom(_, _, _, _)
checkDueFrom(st, i, t, saveOk) ==
    IF i > Len(IdOrder) THEN st
    ELSE LET scheduleId == IdOrder[i]
         IN IF /\ scheduleId \in DOMAIN st.jobs
               /\ st.jobs[scheduleId].schedule.enabled
               /\ IsSome(st.jobs[scheduleId].nextRun)
               /\ Val(st.jobs[scheduleId].nextRun) <= t
            THEN checkDueFrom(executeSchedule(st, scheduleId, t, saveOk), i + 1, t, saveOk)
            ELSE checkDueFrom(st, i + 1, t, saveOk)

\* SchedulerService.checkDueSchedules.
checkDueSchedules(st, t, saveOk) == checkDueFrom(st, 1, t, saveOk)

RECURSIVE scheduleEnabledFrom(_, _, _, _)
scheduleEnabledFrom(st, schedules, i, t) ==
    IF i > Len(schedules) THEN st
    ELSE scheduleEnabledFrom(
            IF schedules[i].enabled THEN scheduleJob(st, schedules[i], t) ELSE st,
            schedules, i + 1, t)

\* SchedulerService.initialize, without the setInterval.
initialize(st, schedules, t) == scheduleEnabledFrom(st, schedules, 1, t)

\* ------------------------------------------------ schedule management
\* Cur together with what the schedule-management calls read and write.
\* fired says whether the call reached onDidChangeEmitter.fire().
CurAll ==
    [jobs |-> jobs, timers |-> timers,
     executions |-> executions, runningExecutions |-> runningExecutions,
     tasks |-> tasks, runHistory |-> runHistory, nextRunId |-> nextRunId,
     result |-> "", overflow |-> FALSE,
     repoSchedules |-> repoSchedules, userOverrides |-> userOverrides,
     intervals |-> intervals, ops |-> ops, fired |-> FALSE]

\* A SchedulerService call suspended at an await: which method, where it
\* stands, its argument (an id, and the schedule object when it was given
\* one) and the list its loadSchedules returned.
MkOp(kind, pc, id, schedule, schedules) ==
    [kind |-> kind, pc |-> pc, id |-> id, schedule |-> schedule, schedules |-> schedules]

\* The suspended calls without the first entry equal to op, if any.
RECURSIVE removeFirst(_, _)
removeFirst(queue, op) ==
    IF queue = << >> THEN << >>
    ELSE IF Head(queue) = op THEN Tail(queue)
    ELSE <<Head(queue)>> \o removeFirst(Tail(queue), op)

\* An async method returns or throws: the call is over.
finish(st, op, result) == [st EXCEPT !.ops = removeFirst(@, op), !.result = result]

\* The call moves on to its next await, behind the calls already waiting.
suspend(st, op, next) == [st EXCEPT !.ops = Append(removeFirst(@, op), next)]

\* StorageManager.saveSchedules: ok = FALSE is writeJsonFile returning false.
saveSchedules(st, schedules, ok) ==
    IF ok THEN [st EXCEPT !.repoSchedules = schedules] ELSE st

\* updateScheduleEnabled writing the enabled flag into the schedule document
\* in place of the override.
updateScheduleEnabled_inDocument(st, scheduleId, enabled) ==
    [st EXCEPT !.repoSchedules =
        [i \in 1..Len(@) |-> IF @[i].id = scheduleId THEN [@[i] EXCEPT !.enabled = enabled]
                             ELSE @[i]]]

\* StorageManager.updateScheduleEnabled, up to its await.
updateScheduleEnabled(st, scheduleId, enabled) ==
    [st EXCEPT !.userOverrides = Put(@, scheduleId, Some(enabled))]

\* schedules.findIndex(s => s.id === id): 0 stands for -1.
findIndex(schedules, id) ==
    LET hits == {i \in 1..Len(schedules) : schedules[i].id = id}
    IN IF hits = {} THEN 0 ELSE CHOOSE i \in hits : \A j \in hits : i <= j

\* schedules.filter(s => s.id !== id).
RECURSIVE filterOut(_, _)
filterOut(schedules, id) ==
    IF schedules = << >> THEN << >>
    ELSE IF Head(schedules).id = id THEN filterOut(Tail(schedules), id)
    ELSE <<Head(schedules)>> \o filterOut(Tail(schedules), id)

\* addSchedule: `await loadSchedules()`.
addScheduleLoad(st, schedule) ==
    suspend(st, MkOp("add", "new", schedule.id, Some(schedule), << >>),
            MkOp("add", "loaded", schedule.id, Some(schedule),
                 loadSchedulesFrom(st.repoSchedules, st.userOverrides)))

\* addSchedule: push, `await saveSchedules(schedules)`.
addScheduleSave(st, op, ok) ==
    LET st1 == saveSchedules(st, Append(op.schedules, Val(op.schedule)), ok)
    IN IF ok THEN suspend(st1, op, [op EXCEPT !.pc = "saved"])
       ELSE finish(st1, op, "writeFailed")

\* addSchedule: scheduleJob when enabled, fire.
addScheduleDone(st, op, t) ==
    LET schedule == Val(op.schedule)
        st1 == IF schedule.enabled THEN scheduleJob(st, schedule, t) ELSE st
    IN finish([st1 EXCEPT !.fired = TRUE], op, "ok")

\* updateSchedule: `await loadSchedules()`.
updateScheduleLoad(st, schedule) ==
    suspend(st, MkOp("update", "new", schedule.id, Some(schedule), << >>),
            MkOp("update", "loaded", schedule.id, Some(schedule),
                 loadSchedulesFrom(st.repoSchedules, st.userOverrides)))

\* updateSchedule with push in place of its not-found error.
updateScheduleSave_upsert(st, op, ok) ==
    LET index == findIndex(op.schedules, op.id)
        updated == IF index = 0 THEN Append(op.schedules, Val(op.schedule))
                   ELSE [op.schedules EXCEPT ![index] = Val(op.schedule)]
        st1 == saveSchedules(st, updated, ok)
    IN IF ok THEN suspend(st1, op, [op EXCEPT !.pc = "saved"])
       ELSE finish(st1, op, "writeFailed")

\* updateSchedule: findIndex, throw or replace, `await saveSchedules(schedules)`.
updateScheduleSave(st, op, ok) ==
    LET index == findIndex(op.schedules, op.id)
    IN IF index = 0 THEN finish(st, op, "notFound")
       ELSE LET st1 == saveSchedules(st, [op.schedules EXCEPT ![index] = Val(op.schedule)], ok)
            IN IF ok THEN suspend(st1, op, [op EXCEPT !.pc = "saved"])
               ELSE finish(st1, op, "writeFailed")

\* updateSchedule: unscheduleJob, scheduleJob when enabled, fire.
updateScheduleDone(st, op, t) ==
    LET schedule == Val(op.schedule)
        st1 == unscheduleJob(st, schedule.id)
        st2 == IF schedule.enabled THEN scheduleJob(st1, schedule, t) ELSE st1
    IN finish([st2 EXCEPT !.fired = TRUE], op, "ok")

\* removeSchedule: `await loadSchedules()`.
removeScheduleLoad(st, scheduleId) ==
    suspend(st, MkOp("remove", "new", scheduleId, None, << >>),
            MkOp("remove", "loaded", scheduleId, None,
                 loadSchedulesFrom(st.repoSchedules, st.userOverrides)))

\* removeSchedule with its unscheduleJob moved before the save.
removeScheduleSave_unscheduleFirst(st, op, ok) ==
    LET st1 == saveSchedules(unscheduleJob(st, op.id), filterOut(op.schedules, op.id), ok)
    IN IF ok THEN suspend(st1, op, [op EXCEPT !.pc = "saved"])
       ELSE finish(st1, op, "writeFailed")

\* removeSchedule: filter, `await saveSchedules(filtered)`.
removeScheduleSave(st, op, ok) ==
    LET st1 == saveSchedules(st, filterOut(op.schedules, op.id), ok)
    IN IF ok THEN suspend(st1, op, [op EXCEPT !.pc = "saved"])
       ELSE finish(st1, op, "writeFailed")

\* removeSchedule: unscheduleJob, fire.
removeScheduleDone(st, op) ==
    finish([unscheduleJob(st, op.id) EXCEPT !.fired = TRUE], op, "ok")

\* enableSchedule: `await updateScheduleEnabled(scheduleId, true)`.
enableScheduleUpdate(st, scheduleId) ==
    suspend(updateScheduleEnabled(st, scheduleId, TRUE),
            MkOp("enable", "new", scheduleId, None, << >>),
            MkOp("enable", "updated", scheduleId, None, << >>))

\* enableSchedule: `await loadSchedules()`.
enableScheduleLoad(st, op) ==
    suspend(st, op, [op EXCEPT !.pc = "loaded",
                               !.schedules = loadSchedulesFrom(st.repoSchedules,
                                                               st.userOverrides)])

\* enableSchedule: find; when found set enabled, scheduleJob, fire.
enableScheduleDone(st, op, t) ==
    LET found == findSchedule(op.schedules, op.id)
    IN IF found = None THEN finish(st, op, "ok")
       ELSE finish([scheduleJob(st, [Val(found) EXCEPT !.enabled = TRUE], t)
                       EXCEPT !.fired = TRUE], op, "ok")

\* disableSchedule: `await updateScheduleEnabled(scheduleId, false)`.
disableScheduleUpdate(st, scheduleId) ==
    suspend(updateScheduleEnabled(st, scheduleId, FALSE),
            MkOp("disable", "new", scheduleId, None, << >>),
            MkOp("disable", "updated", scheduleId, None, << >>))

\* disableSchedule: unscheduleJob, fire.
disableScheduleDone(st, op) ==
    finish([unscheduleJob(st, op.id) EXCEPT !.fired = TRUE], op, "ok")

\* reloadSchedules' loop: unscheduleJob for every job.
RECURSIVE unscheduleFrom(_, _)
unscheduleFrom(st, i) ==
    IF i > Len(IdOrder) THEN st
    ELSE unscheduleFrom(unscheduleJob(st, IdOrder[i]), i + 1)

\* reloadSchedules: clear the jobs, then initialize up to `await loadSchedules()`.
reloadSchedulesLoad(st) ==
    suspend(unscheduleFrom(st, 1),
            MkOp("reload", "new", "", None, << >>),
            MkOp("reload", "loaded", "", None,
                 loadSchedulesFrom(st.repoSchedules, st.userOverrides)))

\* reloadSchedules: the rest of initialize (scheduleJob for the enabled
\* schedules, setInterval), then fire.
reloadSchedulesDone(st, op, t) ==
    finish([initialize(st, op.schedules, t) EXCEPT !.intervals = @ + 1, !.fired = TRUE],
           op, "ok")

\* ------------------------------------------------------------- actions
\* A RunningExecution object that neither the map nor a task refers to any
\* more is garbage.
Live(st) == st.runningExecutions \cup DOMAIN st.tasks

Apply(st) ==
    /\ ~st.overflow
    /\ jobs' = st.jobs
    /\ timers' = st.timers
    /\ executions' = [r \in Live(st) |-> st.executions[r]]
    /\ runningExecutions' = st.runningExecutions
    /\ tasks' = st.tasks
    /\ runHistory' = st.runHistory
    /\ nextRunId' = st.nextRunId

storage == << repoSchedules, userOverrides >>

\* What only the schedule-management calls change.
management == << ops, disabledIds, addedIds, calls >>

\* The state after activate() built the services, before initialize() ran,
\* with a document whose schedule runs in the given mode.
InitWith(mode) ==
    /\ now = 0
    /\ repoSchedules = InitialSchedules(mode)
    /\ userOverrides = EmptyMap
    /\ runHistory = << >>
    /\ jobs = EmptyMap
    /\ timers = EmptyBag
    /\ intervals = 0
    /\ executions = EmptyMap
    /\ runningExecutions = {}
    /\ tasks = EmptyMap
    /\ pendingCancels = [r \in RunIds |-> 0]
    /\ nextRunId = 1
    /\ ops = << >>
    /\ disabledIds = {}
    /\ addedIds = {}
    /\ calls = 0
    /\ prompt = None
    /\ disposed = FALSE

Init == \E mode \in ExecutionModes : InitWith(mode)

\* Time passes, up to a limit.
Advance(limit) ==
    /\ now < limit
    /\ now' = now + 1
    /\ UNCHANGED << prompt, disposed, storage, management, runHistory, jobs, timers, intervals, executions,
                    runningExecutions, tasks, pendingCancels, nextRunId >>

Tick == Advance(MaxTime)

\* activate() calls schedulerService.initialize() before any command can
\* reach the service.
initialized == intervals > 0

Initialize ==
    /\ ~initialized
    /\ ~disposed
    /\ Apply(initialize(Cur, loadSchedules, now))
    /\ intervals' = intervals + 1
    /\ UNCHANGED << prompt, disposed, now, storage, management, pendingCancels >>

\* A job's setTimeout callback runs: executeSchedule(id).
TimerFires(tm) ==
    /\ BagIn(tm, timers)
    /\ tm.due <= now
    /\ \E saveOk \in BOOLEAN :
         LET st == executeSchedule([Cur EXCEPT !.timers = @ (-) SetToBag({tm})], tm.sid, now, saveOk)
         IN /\ Apply(st)
    /\ UNCHANGED << prompt, disposed, now, storage, management, intervals, pendingCancels >>

\* The setInterval callback runs: checkDueSchedules().
Sweep ==
    /\ intervals > 0
    /\ \E saveOk \in BOOLEAN :
         LET st == checkDueSchedules(Cur, now, saveOk)
         IN /\ Apply(st)
    /\ UNCHANGED << prompt, disposed, now, storage, management, intervals, pendingCancels >>

\* SchedulerService.runSchedule(scheduleId).
RunSchedule(scheduleId) ==
    /\ initialized
    /\ \E saveOk \in BOOLEAN : Apply(runSchedule(Cur, loadSchedules, scheduleId, now, saveOk))
    /\ UNCHANGED << prompt, disposed, now, storage, management, intervals, pendingCancels >>

\* SchedulerService.runScheduleDirect(schedule).
RunScheduleDirect(schedule) ==
    /\ initialized
    /\ \E saveOk \in BOOLEAN : Apply(runScheduleDirect(Cur, schedule, now, saveOk))
    /\ UNCHANGED << prompt, disposed, now, storage, management, intervals, pendingCancels >>

\* ExecutionEngine.cancelExecution(runId), up to its await.
CancelExecution(runId) ==
    /\ initialized
    /\ pendingCancels[runId] < MaxPendingCancels
    /\ \E saveOk \in BOOLEAN :
         LET st == cancelExecution(Cur, runId, now, saveOk)
         IN /\ Apply(st)
            /\ pendingCancels' =
                 [pendingCancels EXCEPT ![runId] = IF st.result = "pending" THEN @ + 1 ELSE @]
    /\ UNCHANGED << prompt, disposed, now, storage, management, intervals >>

\* cancelExecution after its saveRunRecord resolved: delete(runId), return true.
CancelResolved(runId) ==
    /\ pendingCancels[runId] > 0
    /\ pendingCancels' = [pendingCancels EXCEPT ![runId] = @ - 1]
    /\ Apply([Cur EXCEPT !.runningExecutions = @ \ {runId}])
    /\ UNCHANGED << prompt, disposed, now, storage, management, intervals >>

\* The Agent Runner returns its result to executeLocal: handleExecutionResult.
RunnerReturns(runId, success) ==
    /\ runId \in DOMAIN tasks
    /\ tasks[runId].pc = "runner"
    /\ \E saveOk \in BOOLEAN :
         Apply(handleExecutionResult(Cur, runId, success, now, saveOk))
    /\ UNCHANGED << prompt, disposed, now, storage, management, intervals, pendingCancels >>

\* A saveRunRecord that a run's code awaits resolves: delete(runId) follows
\* (handleExecutionResult, executeLocal's catch and cancelled branch, the
\* cloud poll callback).
SaveResolved(runId) ==
    /\ runId \in DOMAIN tasks
    /\ tasks[runId].pc = "saved"
    /\ Apply([Cur EXCEPT !.runningExecutions = @ \ {runId}, !.tasks = Drop(@, runId)])
    /\ UNCHANGED << prompt, disposed, now, storage, management, intervals, pendingCancels >>

\* A saveRunRecord awaited inside executeLocal's try rejects: its catch runs.
SaveRejectedInTry(runId) ==
    /\ runId \in DOMAIN tasks
    /\ tasks[runId].pc = "trySaveFailed"
    /\ \E saveOk \in BOOLEAN : Apply(localCatch(Cur, runId, "saveFailed", now, saveOk))
    /\ UNCHANGED << prompt, disposed, now, storage, management, intervals, pendingCancels >>

\* A saveRunRecord awaited inside executeLocal's catch rejects: executeLocal
\* rejects and the handler attached in execute runs.
SaveRejectedInCatch(runId) ==
    /\ runId \in DOMAIN tasks
    /\ tasks[runId].pc = "catchSaveFailed"
    /\ \E saveOk \in BOOLEAN :
         Apply(executeCatchHandler(Cur, runId, "saveFailed", now, saveOk))
    /\ UNCHANGED << prompt, disposed, now, storage, management, intervals, pendingCancels >>

\* The cloud poll interval fires.
PollFires(runId) ==
    /\ runId \in DOMAIN tasks
    /\ tasks[runId].pc = "poll"
    /\ \E threshold \in minPolls..(minPolls + Min(PollSpread, maxPolls - 1)), saveOk \in BOOLEAN :
         Apply(pollCallback(Cur, runId, threshold, now, saveOk))
    /\ UNCHANGED << prompt, disposed, now, storage, management, intervals, pendingCancels >>

Next ==
    \/ Tick
    \/ Initialize
    \/ \E tm \in BagToSet(timers) : TimerFires(tm)
    \/ Sweep
    \/ \E id \in ScheduleIds : RunSchedule(id)
    \/ \E schedule \in TestSchedules : RunScheduleDirect(schedule)
    \/ \E r \in RunIds : CancelExecution(r)
    \/ \E r \in RunIds : CancelResolved(r)
    \/ \E r \in RunIds, success \in BOOLEAN : RunnerReturns(r, success)
    \/ \E r \in RunIds : SaveResolved(r)
    \/ \E r \in RunIds : SaveRejectedInTry(r)
    \/ \E r \in RunIds : SaveRejectedInCatch(r)
    \/ \E r \in RunIds : PollFires(r)

Spec == Init /\ [][Next]_vars

\* ------------------------------------------- schedule-management actions
ApplyAll(st) ==
    /\ Apply(st)
    /\ repoSchedules' = st.repoSchedules
    /\ userOverrides' = st.userOverrides
    /\ intervals' = st.intervals
    /\ ops' = st.ops

Suspended == {ops[i] : i \in DOMAIN ops}

\* Awaits on loadSchedules and saveSchedules wait for a promise that is
\* already settled (both do their file I/O synchronously): the continuations
\* are microtasks and run in the order in which they were queued.  The await
\* in enableSchedule and disableSchedule waits for workspaceState.update.
IsMicrotask(op) == op.pc /= "updated"

MicrotaskQueue == SelectSeq(ops, IsMicrotask)

\* Timers, intervals and I/O completions run when no microtask is queued.
Idle == MicrotaskQueue = << >>

\* The calls of the given kind and position whose continuation may run now.
OpsAt(kind, pc) ==
    {op \in Suspended :
        /\ op.kind = kind /\ op.pc = pc
        /\ IF IsMicrotask(op) THEN op = Head(MicrotaskQueue) ELSE Idle}

\* A caller invokes a SchedulerService method; it need not have awaited the
\* calls it made before.
CanCall ==
    /\ initialized
    /\ ~disposed
    /\ Len(ops) < MaxOps
    /\ calls < MaxCalls
    /\ calls' = calls + 1

AddSchedule(schedule) ==
    /\ CanCall
    /\ Len(repoSchedules) < MaxSchedules
    /\ ApplyAll(addScheduleLoad(CurAll, schedule))
    /\ UNCHANGED << prompt, disposed, now, pendingCancels, disabledIds, addedIds >>

AddScheduleSave(op) ==
    /\ op \in OpsAt("add", "loaded")
    /\ \E ok \in BOOLEAN : ApplyAll(addScheduleSave(CurAll, op, ok))
    /\ UNCHANGED << prompt, disposed, now, calls, pendingCancels, disabledIds, addedIds >>

AddScheduleDone(op) ==
    /\ op \in OpsAt("add", "saved")
    /\ ApplyAll(addScheduleDone(CurAll, op, now))
    /\ addedIds' = IF \E o \in Suspended : o.kind = "remove" /\ o.id = op.id
                    THEN addedIds
                    ELSE addedIds \cup {op.id}
    /\ UNCHANGED << prompt, disposed, now, calls, pendingCancels, disabledIds >>

UpdateSchedule(schedule) ==
    /\ CanCall
    /\ ApplyAll(updateScheduleLoad(CurAll, schedule))
    /\ UNCHANGED << prompt, disposed, now, pendingCancels, disabledIds, addedIds >>

UpdateScheduleSave(op) ==
    /\ op \in OpsAt("update", "loaded")
    /\ \E ok \in BOOLEAN : ApplyAll(updateScheduleSave(CurAll, op, ok))
    /\ UNCHANGED << prompt, disposed, now, calls, pendingCancels, disabledIds, addedIds >>

UpdateScheduleDone(op) ==
    /\ op \in OpsAt("update", "saved")
    /\ ApplyAll(updateScheduleDone(CurAll, op, now))
    /\ UNCHANGED << prompt, disposed, now, calls, pendingCancels, disabledIds, addedIds >>

RemoveSchedule(scheduleId) ==
    /\ CanCall
    /\ ApplyAll(removeScheduleLoad(CurAll, scheduleId))
    /\ addedIds' = addedIds \ {scheduleId}
    /\ UNCHANGED << prompt, disposed, now, pendingCancels, disabledIds >>

RemoveScheduleSave(op) ==
    /\ op \in OpsAt("remove", "loaded")
    /\ \E ok \in BOOLEAN : ApplyAll(removeScheduleSave(CurAll, op, ok))
    /\ addedIds' = addedIds \ {op.id}
    /\ UNCHANGED << prompt, disposed, now, calls, pendingCancels, disabledIds >>

RemoveScheduleDone(op) ==
    /\ op \in OpsAt("remove", "saved")
    /\ ApplyAll(removeScheduleDone(CurAll, op))
    /\ UNCHANGED << prompt, disposed, now, calls, pendingCancels, disabledIds, addedIds >>

EnableSchedule(scheduleId) ==
    /\ CanCall
    /\ ApplyAll(enableScheduleUpdate(CurAll, scheduleId))
    /\ disabledIds' = disabledIds \ {scheduleId}
    /\ UNCHANGED << prompt, disposed, now, pendingCancels, addedIds >>

EnableScheduleLoad(op) ==
    /\ op \in OpsAt("enable", "updated")
    /\ ApplyAll(enableScheduleLoad(CurAll, op))
    /\ UNCHANGED << prompt, disposed, now, calls, pendingCancels, disabledIds, addedIds >>

EnableScheduleDone(op) ==
    /\ op \in OpsAt("enable", "loaded")
    /\ ApplyAll(enableScheduleDone(CurAll, op, now))
    /\ UNCHANGED << prompt, disposed, now, calls, pendingCancels, disabledIds, addedIds >>

DisableSchedule(scheduleId) ==
    /\ CanCall
    /\ ApplyAll(disableScheduleUpdate(CurAll, scheduleId))
    /\ UNCHANGED << prompt, disposed, now, pendingCancels, disabledIds, addedIds >>

DisableScheduleDone(op) ==
    /\ op \in OpsAt("disable", "updated")
    /\ ApplyAll(disableScheduleDone(CurAll, op))
    /\ disabledIds' = disabledIds \cup {op.id}
    /\ UNCHANGED << prompt, disposed, now, calls, pendingCancels, addedIds >>

\* The schedules-file watcher or a workspace-folder change calls reloadSchedules.
ReloadSchedules ==
    /\ CanCall
    /\ intervals < MaxIntervals
    /\ ApplyAll(reloadSchedulesLoad(CurAll))
    /\ UNCHANGED << prompt, disposed, now, pendingCancels, disabledIds, addedIds >>

ReloadSchedulesDone(op) ==
    /\ op \in OpsAt("reload", "loaded")
    /\ ApplyAll(reloadSchedulesDone(CurAll, op, now))
    /\ UNCHANGED << prompt, disposed, now, calls, pendingCancels, disabledIds, addedIds >>

\* Schedule management next to the automatic triggers.
TickManagement == Idle /\ Advance(MaxTimeManagement)

NextManagement ==
    \/ TickManagement
    \/ Initialize
    \/ Idle /\ \E tm \in BagToSet(timers) : TimerFires(tm)
    \/ Idle /\ Sweep
    \/ \E schedule \in ManagedSchedules : AddSchedule(schedule)
    \/ \E op \in Suspended : AddScheduleSave(op)
    \/ \E op \in Suspended : AddScheduleDone(op)
    \/ \E schedule \in ManagedSchedules : UpdateSchedule(schedule)
    \/ \E op \in Suspended : UpdateScheduleSave(op)
    \/ \E op \in Suspended : UpdateScheduleDone(op)
    \/ \E scheduleId \in ManagedIds : RemoveSchedule(scheduleId)
    \/ \E op \in Suspended : RemoveScheduleSave(op)
    \/ \E op \in Suspended : RemoveScheduleDone(op)
    \/ \E scheduleId \in ManagedIds : EnableSchedule(scheduleId)
    \/ \E op \in Suspended : EnableScheduleLoad(op)
    \/ \E op \in Suspended : EnableScheduleDone(op)
    \/ \E scheduleId \in ManagedIds : DisableSchedule(scheduleId)
    \/ \E op \in Suspended : DisableScheduleDone(op)
    \/ ReloadSchedules
    \/ \E op \in Suspended : ReloadSchedulesDone(op)

InitManagement == InitWith("ide")

SpecManagement == InitManagement /\ [][NextManagement]_vars

\* ------------------------------------------------------ run history
\* The engine hands the record of a finished run to saveRunRecord; the runs
\* are numbered in the order their records are saved, and a rejected save
\* writes nothing.
SaveRunRecord(status, ok) ==
    /\ nextRunId <= MaxSaves
    /\ LET record == [runId |-> nextRunId, maxRuntime |-> 0, scheduleId |-> "s1",
                      startedAt |-> now, status |-> status, error |-> "",
                      finishedAt |-> Some(now), executionTime |-> Some(0)]
       IN runHistory' = saveRunRecord(runHistory, record, ok)
    /\ nextRunId' = IF ok THEN nextRunId + 1 ELSE nextRunId
    /\ UNCHANGED << prompt, disposed, now, storage, management, jobs, timers, intervals, executions,
                    runningExecutions, tasks, pendingCancels >>

\* The run history filled past its cap.
NextHistory ==
    \E ok \in BOOLEAN :
        \E status \in (IF nextRunId <= VariedSaves THEN {"success", "failure"} ELSE {"success"}) :
            SaveRunRecord(status, ok)

SpecHistory == InitManagement /\ [][NextHistory]_vars

\* ------------------------------------------------- overrides on read
\* Schedules a document may hold, and the documents: any sequence of them,
\* two entries of one id included.
DocumentSchedules ==
    {MkSchedule(id, enabled, "* * * * *", "prompt", "p", "", "ide", 0) :
        id \in ManagedIds, enabled \in BOOLEAN}

RECURSIVE Documents(_)
Documents(n) ==
    IF n = 0 THEN {<< >>}
    ELSE Documents(n - 1) \cup
         {Append(d, s) : d \in {x \in Documents(n - 1) : Len(x) = n - 1}, s \in DocumentSchedules}

\* The override records workspaceState may hold: for any ids, with an
\* enabled value or with last-run metadata only.
OverrideMaps ==
    UNION {[ids -> {None, Some(TRUE), Some(FALSE)}] : ids \in SUBSET ManagedIds}

\* Any document and any overrides; nothing is scheduled or running.
InitLoad ==
    /\ now = 0
    /\ repoSchedules \in Documents(MaxSchedules)
    /\ userOverrides \in OverrideMaps
    /\ runHistory = << >>
    /\ jobs = EmptyMap
    /\ timers = EmptyBag
    /\ intervals = 0
    /\ executions = EmptyMap
    /\ runningExecutions = {}
    /\ tasks = EmptyMap
    /\ pendingCancels = [r \in RunIds |-> 0]
    /\ nextRunId = 1
    /\ ops = << >>
    /\ disabledIds = {}
    /\ addedIds = {}
    /\ calls = 0
    /\ prompt = None
    /\ disposed = FALSE

\* StorageManager.updateScheduleEnabled.
UpdateScheduleEnabled(scheduleId, enabled) ==
    /\ userOverrides' = updateScheduleEnabled(CurAll, scheduleId, enabled).userOverrides
    /\ UNCHANGED << prompt, disposed, now, repoSchedules, management, runHistory, jobs, timers, intervals,
                    executions, runningExecutions, tasks, pendingCancels, nextRunId >>

\* StorageManager.updateLastRun: the override gets last-run metadata and
\* keeps the enabled value it had, if any.
UpdateLastRun(scheduleId) ==
    /\ userOverrides' = Put(userOverrides, scheduleId,
                            IF scheduleId \in DOMAIN userOverrides
                            THEN userOverrides[scheduleId] ELSE None)
    /\ UNCHANGED << prompt, disposed, now, repoSchedules, management, runHistory, jobs, timers, intervals,
                    executions, runningExecutions, tasks, pendingCancels, nextRunId >>

NextLoad ==
    \/ \E scheduleId \in ManagedIds, enabled \in BOOLEAN : UpdateScheduleEnabled(scheduleId, enabled)
    \/ \E scheduleId \in ManagedIds : UpdateLastRun(scheduleId)

SpecLoad == InitLoad /\ [][NextLoad]_vars

\* ------------------------------------------------- cron evaluation
\* The expressions handed to validateCronExpression and getNextRunTime: two
\* that cron-parser accepts and two that make parseExpression throw.
CronExpressions == {"* * * * *", "*/2 * * * *", "every minute", "61 * * * *"}

\* A document with one enabled schedule of any of the expressions; the
\* extension is activated at any minute.
InitCron ==
    /\ now = 0
    /\ repoSchedules \in {<< MkSchedule(id, TRUE, cron, "prompt", "p", "", "ide", 0) >> :
                             id \in ManagedIds, cron \in CronExpressions}
    /\ userOverrides = EmptyMap
    /\ runHistory = << >>
    /\ jobs = EmptyMap
    /\ timers = EmptyBag
    /\ intervals = 0
    /\ executions = EmptyMap
    /\ runningExecutions = {}
    /\ tasks = EmptyMap
    /\ pendingCancels = [r \in RunIds |-> 0]
    /\ nextRunId = 1
    /\ ops = << >>
    /\ disabledIds = {}
    /\ addedIds = {}
    /\ calls = 0
    /\ prompt = None
    /\ disposed = FALSE

TickCron == Advance(MaxCronTime)

NextCron == TickCron \/ Initialize

SpecCron == InitCron /\ [][NextCron]_vars

\* ------------------------------------------- variable substitution
\* A prompt is a sequence of pieces.  A piece of text is a brace or a run of
\* letters, so that "{", "date", "time", "}" reads {datetime}; a value piece
\* is what a variable was replaced by, and holds the instant it was taken
\* at.  The values are digits, dashes and colons: no value holds a brace or
\* a letter.
Text(s) == [kind |-> "text", s |-> s, at |-> 0]

Value(key, t) == [kind |-> "value", s |-> key, at |-> t]

\* The keys of `defaults`, in the order Object.entries walks them.
VariableKeys == << "datetime", "date", "time", "timestamp" >>

\* What new RegExp(`\\{${key}\\}`, 'g') matches.
Placeholder(key) ==
    CASE key = "datetime" -> << Text("{"), Text("date"), Text("time"), Text("}") >>
      [] key = "date" -> << Text("{"), Text("date"), Text("}") >>
      [] key = "time" -> << Text("{"), Text("time"), Text("}") >>
      [] key = "timestamp" -> << Text("{"), Text("time"), Text("stamp"), Text("}") >>

\* String.replace with a regular expression that has no g flag.
replaceAll_firstOnly(text, pattern, value) ==
    LET hits == {i \in 1..(Len(text) - Len(pattern) + 1) :
                    SubSeq(text, i, i + Len(pattern) - 1) = pattern}
    IN IF hits = {} THEN text
       ELSE LET i == CHOOSE h \in hits : \A k \in hits : h <= k
            IN SubSeq(text, 1, i - 1) \o << value >> \o SubSeq(text, i + Len(pattern), Len(text))

\* result.replace(new RegExp(..., 'g'), value): every match, left to right.
RECURSIVE replaceAll(_, _, _)
replaceAll(text, pattern, value) ==
    IF Len(text) < Len(pattern) THEN text
    ELSE IF SubSeq(text, 1, Len(pattern)) = pattern
    THEN << value >> \o replaceAll(SubSeq(text, Len(pattern) + 1, Len(text)), pattern, value)
    ELSE << Head(text) >> \o replaceAll(Tail(text), pattern, value)

RECURSIVE substituteFrom(_, _, _)
substituteFrom(result, i, t) ==
    IF i > Len(VariableKeys) THEN result
    ELSE substituteFrom(replaceAll(result, Placeholder(VariableKeys[i]), Value(VariableKeys[i], t)),
                        i + 1, t)

\* CursorAgentRunner.substituteVariables(template), called at instant t.
substituteVariables(template, t) == substituteFrom(template, 1, t)

\* The pieces a template is made of, and the templates.
TemplatePieces == {Text(s) : s \in {"{", "}", "date", "time", "stamp", "x"}}

RECURSIVE Templates(_)
Templates(n) ==
    IF n = 0 THEN {<< >>}
    ELSE Templates(n - 1) \cup
         {Append(tpl, piece) : tpl \in {x \in Templates(n - 1) : Len(x) = n - 1},
                               piece \in TemplatePieces}

\* A document with one prompt schedule, of any template.
InitTemplate ==
    /\ now = 0
    /\ repoSchedules \in {<< MkSchedule("s1", TRUE, "* * * * *", "prompt", template, "", "ide", 0) >> :
                             template \in Templates(MaxTemplate)}
    /\ userOverrides = EmptyMap
    /\ runHistory = << >>
    /\ jobs = EmptyMap
    /\ timers = EmptyBag
    /\ intervals = 0
    /\ executions = EmptyMap
    /\ runningExecutions = {}
    /\ tasks = EmptyMap
    /\ pendingCancels = [r \in RunIds |-> 0]
    /\ nextRunId = 1
    /\ ops = << >>
    /\ disabledIds = {}
    /\ addedIds = {}
    /\ calls = 0
    /\ prompt = None
    /\ disposed = FALSE

\* executeLocal prepares the prompt of a prompt schedule that has a template.
SubstituteVariables ==
    /\ repoSchedules[1].targetType = "prompt"
    /\ repoSchedules[1].promptTemplate /= << >>
    /\ prompt' = Some(substituteVariables(repoSchedules[1].promptTemplate, now))
    /\ UNCHANGED << now, disposed, storage, management, runHistory, jobs, timers, intervals,
                    executions, runningExecutions, tasks, pendingCancels, nextRunId >>

TickTemplate ==
    /\ Advance(MaxTemplateTime)

NextTemplate == TickTemplate \/ SubstituteVariables

SpecTemplate == InitTemplate /\ [][NextTemplate]_vars

\* ------------------------------------------- triggers under fairness
\* initialize whose scheduleJob calls read the clock on both sides of a
\* minute boundary: getNextRunTime at t, Date.now() at t2.
RECURSIVE scheduleEnabledAt(_, _, _, _, _)
scheduleEnabledAt(st, schedules, i, t, t2) ==
    IF i > Len(schedules) THEN st
    ELSE scheduleEnabledAt(
            IF schedules[i].enabled THEN scheduleJobAt(st, schedules[i], t, t2) ELSE st,
            schedules, i + 1, t, t2)

InitializeAcrossTick ==
    /\ ~initialized
    /\ now < MaxTimeTrigger
    /\ now' = now + 1
    /\ Apply(scheduleEnabledAt(Cur, loadSchedules, 1, now, now + 1))
    /\ intervals' = intervals + 1
    /\ UNCHANGED << prompt, disposed, storage, management, pendingCancels >>

TickTrigger == Idle /\ Advance(MaxTimeTrigger)

TimerCallback == Idle /\ \E tm \in BagToSet(timers) : TimerFires(tm)

IntervalCallback == Idle /\ Sweep

NextTrigger ==
    \/ TickTrigger
    \/ Initialize
    \/ InitializeAcrossTick
    \/ TimerCallback
    \/ IntervalCallback
    \/ \E r \in RunIds, success \in BOOLEAN : RunnerReturns(r, success)
    \/ \E r \in RunIds : SaveResolved(r)

\* The event loop runs a timeout callback that is due and the interval
\* callback as long as the extension host lives.
SpecTrigger ==
    /\ InitManagement
    /\ [][NextTrigger]_vars
    /\ WF_vars(TimerCallback)
    /\ WF_vars(IntervalCallback)

\* ----------------------------------------------------------- dispose
\* SchedulerService.dispose: clearInterval of the handle the checkInterval
\* field holds, which is the one the last initialize stored; unscheduleJob
\* for every job.
dispose(st) ==
    [unscheduleFrom(st, 1) EXCEPT !.intervals = IF @ > 0 THEN @ - 1 ELSE @]

\* deactivate() calls dispose, once, from the event loop (no microtask is
\* queued); no command reaches the service afterwards, but the calls
\* suspended at an await resume.
Dispose ==
    /\ initialized
    /\ ~disposed
    /\ Idle
    /\ disposed' = TRUE
    /\ ApplyAll(dispose(CurAll))
    /\ UNCHANGED << prompt, now, pendingCancels, disabledIds, addedIds, calls >>

NextDispose == NextManagement \/ Dispose

SpecDispose == InitManagement /\ [][NextDispose]_vars

\* ------------------------------------------------------------- claims
AllIds == ScheduleIds \cup {schedule.id : schedule \in TestSchedules}

\* The entries of the running-executions map for a schedule id that are not
\* cancelled.
NonCancelled(scheduleId) ==
    {r \in runningExecutions :
        executions[r].schedule.id = scheduleId /\ ~executions[r].cancelled}

\* The runs of a schedule whose Agent Runner call or cloud poll loop is in
\* progress.
InProgress(scheduleId) ==
    {r \in DOMAIN tasks :
        tasks[r].pc \in {"runner", "poll"} /\ executions[r].schedule.id = scheduleId}

HistoryIndices == 1..Len(runHistory)

\* C1: in every reachable state the running-executions map holds, for each
\* schedule id, at most one entry whose cancelled flag is false.
C1_SingleFlight ==
    \A id \in AllIds : Cardinality(NonCancelled(id)) <= 1

\* C1 witness: a cancelled entry and a fresh, non-cancelled entry of the same
\* schedule are in the map together.
C1_Witness ==
    \E r1 \in runningExecutions, r2 \in runningExecutions :
        /\ executions[r1].schedule.id = executions[r2].schedule.id
        /\ executions[r1].cancelled
        /\ ~executions[r2].cancelled

\* C3 (as claimed): for one schedule, never two Agent Runner invocations or
\* poll loops in progress at once.
C3_NoOverlap ==
    \A id \in AllIds : Cardinality(InProgress(id)) <= 1

\* C4 (as claimed): once cancelExecution has marked a run cancelled, no
\* success record is saved for it: in the newest-first history no success
\* record of a run stands before that run's cancellation record.
C4_CancelledNeverSucceeds ==
    \A i \in HistoryIndices, j \in HistoryIndices :
        (i < j /\ runHistory[i].runId = runHistory[j].runId
               /\ runHistory[j].error = "cancelledByUser")
            => runHistory[i].status /= "success"

\* C7 (as claimed): a run of a schedule with a max runtime whose measured
\* elapsed time exceeds it is recorded as a failure.
C7_MaxRuntimeEnforced ==
    \A i \in HistoryIndices :
        (/\ runHistory[i].maxRuntime /= 0
         /\ IsSome(runHistory[i].executionTime)
         /\ Val(runHistory[i].executionTime) > runHistory[i].maxRuntime)
            => runHistory[i].status = "failure"

\* C8 (as claimed): no single-flight lock is stuck: a non-cancelled entry of
\* the running-executions map always has code in flight that will remove it.
C8_NoStuckLock ==
    \A r \in runningExecutions :
        ~executions[r].cancelled => r \in DOMAIN tasks

\* C9: every record in the run history with status success or failure has
\* finishedAt set and executionTime set to a value >= 0.
C9_TerminalInvariant ==
    \A i \in HistoryIndices :
        runHistory[i].status \in {"success", "failure"}
            => /\ IsSome(runHistory[i].finishedAt)
               /\ IsSome(runHistory[i].executionTime)
               /\ Val(runHistory[i].executionTime) >= 0

\* C9 witness: the history holds a failure record written on an exception
\* path after a rejected save, next to a success record and a cancellation.
C9_Witness ==
    /\ \E i \in HistoryIndices : runHistory[i].error = "saveFailed"
    /\ \E i \in HistoryIndices : runHistory[i].status = "success"
    /\ \E i \in HistoryIndices : runHistory[i].error = "cancelledByUser"

\* C10 (as claimed): never two records in the run history for one run.
C10_OneRecordPerRun ==
    \A i \in HistoryIndices, j \in HistoryIndices :
        i /= j => runHistory[i].runId /= runHistory[j].runId

\* A timer of the schedule is pending and due; the sweep would fire the job.
TimerDue(scheduleId) ==
    \E tm \in BagToSet(timers) : tm.sid = scheduleId /\ tm.due <= now

SweepDue(scheduleId) ==
    /\ scheduleId \in DOMAIN jobs
    /\ jobs[scheduleId].schedule.enabled
    /\ IsSome(jobs[scheduleId].nextRun)
    /\ Val(jobs[scheduleId].nextRun) <= now

\* C2: when the timer or the sweep calls executeSchedule for a job's due
\* instant, the step creates at most one RunningExecution for the schedule,
\* and only when no non-cancelled one exists; afterwards neither trigger is
\* due for that instant any more, so the other trigger cannot start a second
\* run for it.
C2_TriggersIdempotent ==
    [][\A id \in AllIds :
          (/\ id \in DOMAIN jobs
           /\ \/ \E tm \in BagToSet(timers) : tm.sid = id /\ TimerFires(tm)
              \/ Sweep /\ SweepDue(id))
            => /\ Cardinality({r \in runningExecutions' \ runningExecutions :
                                  executions'[r].schedule.id = id}) <= 1
               /\ (runningExecutions' \ runningExecutions /= {}) => NonCancelled(id) = {}
               /\ ~TimerDue(id)'
               /\ ~SweepDue(id)']_vars

\* C2 witness: the job's timer is due and the sweep sees the job as due, for
\* the same instant, while a run of the schedule is in progress.
C2_Witness ==
    \E id \in AllIds :
        /\ TimerDue(id) /\ SweepDue(id) /\ intervals > 0
        /\ \E tm \in BagToSet(timers) : tm.sid = id /\ Some(tm.due) = jobs[id].nextRun
        /\ InProgress(id) /= {}

\* C5 (as claimed): when a timer or sweep trigger finds its schedule running,
\* a record with status skipped is added to the run history.
C5_SkipRecorded ==
    [][\A id \in AllIds :
          (/\ id \in DOMAIN jobs
           /\ NonCancelled(id) /= {}
           /\ \/ \E tm \in BagToSet(timers) : tm.sid = id /\ TimerFires(tm)
              \/ Sweep /\ SweepDue(id))
            => \E i \in 1..Len(runHistory') :
                  /\ runHistory'[i].status = "skipped"
                  /\ runHistory'[i].scheduleId = id]_vars

\* What a rejected manual run leaves alone.
NothingStarted(st) ==
    /\ st.runningExecutions = runningExecutions
    /\ st.executions = executions
    /\ st.tasks = tasks
    /\ st.runHistory = runHistory
    /\ st.nextRunId = nextRunId

Stored(scheduleId) == IsSome(findSchedule(loadSchedules, scheduleId))

\* The schedule objects runScheduleDirect is called with.
DirectSchedules == TestSchedules \cup {loadSchedules[i] : i \in 1..Len(loadSchedules)}

\* C6 (as claimed): runSchedule(id) and runScheduleDirect(schedule) issued
\* while a non-cancelled execution of the id exists fail with 'already
\* running' and start nothing; runSchedule on an id absent from storage
\* fails with not-found and starts nothing.
C6_ManualBusyOrNotFound ==
    \A saveOk \in BOOLEAN :
        /\ \A id \in AllIds :
              NonCancelled(id) /= {} =>
                 LET st == runSchedule(Cur, loadSchedules, id, now, saveOk)
                 IN st.result = "alreadyRunning" /\ NothingStarted(st)
        /\ \A schedule \in DirectSchedules :
              NonCancelled(schedule.id) /= {} =>
                 LET st == runScheduleDirect(Cur, schedule, now, saveOk)
                 IN st.result = "alreadyRunning" /\ NothingStarted(st)
        /\ \A id \in AllIds :
              ~Stored(id) =>
                 LET st == runSchedule(Cur, loadSchedules, id, now, saveOk)
                 IN st.result = "notFound" /\ NothingStarted(st)

\* C6 (amended): runSchedule(id) on a stored id, and runScheduleDirect, issued
\* while a non-cancelled execution of the id exists fail with 'already
\* running' and start nothing; runSchedule on an id absent from storage fails
\* with not-found and starts nothing, also while that id is running.
C6_ManualBusyOrNotFound_Amended ==
    \A saveOk \in BOOLEAN :
        /\ \A id \in AllIds :
              (Stored(id) /\ NonCancelled(id) /= {}) =>
                 LET st == runSchedule(Cur, loadSchedules, id, now, saveOk)
                 IN st.result = "alreadyRunning" /\ NothingStarted(st)
        /\ \A schedule \in DirectSchedules :
              NonCancelled(schedule.id) /= {} =>
                 LET st == runScheduleDirect(Cur, schedule, now, saveOk)
                 IN st.result = "alreadyRunning" /\ NothingStarted(st)
        /\ \A id \in AllIds :
              ~Stored(id) =>
                 LET st == runSchedule(Cur, loadSchedules, id, now, saveOk)
                 IN st.result = "notFound" /\ NothingStarted(st)

\* C6 witness: a stored schedule and an unsaved one are both running, so
\* every rejection of the claim has a call it applies to.
C6_Witness ==
    /\ \E id \in AllIds : Stored(id) /\ NonCancelled(id) /= {}
    /\ \E id \in AllIds : ~Stored(id) /\ NonCancelled(id) /= {}

\* C11: the run history never holds a record with status running; in
\* particular none is left behind by a run that is no longer in the
\* running-executions map.
C11_NoRunningRecord ==
    \A i \in HistoryIndices : runHistory[i].status /= "running"

\* C11 witness: runs that wrote their record through handleExecutionResult
\* and through cancelExecution have been removed from the map.
C11_Witness ==
    /\ \E i \in HistoryIndices :
          /\ runHistory[i].runId \notin runningExecutions
          /\ runHistory[i].error \in {"", "runner", "maxRuntime"}
    /\ \E i \in HistoryIndices :
          /\ runHistory[i].runId \notin runningExecutions
          /\ runHistory[i].error = "cancelledByUser"

\* The step is an automatic trigger of the job of scheduleId: its timer
\* fires, or the sweep finds it due.
AutoTrigger(scheduleId) ==
    /\ scheduleId \in DOMAIN jobs
    /\ \/ \E tm \in BagToSet(timers) : tm.sid = scheduleId /\ TimerFires(tm)
       \/ Sweep /\ SweepDue(scheduleId)

\* The command the schedule refers to is not in the registry.
Unresolvable(schedule) ==
    /\ schedule.targetType = "command"
    /\ schedule.commandRef /= ""
    /\ getCommand(schedule.commandRef) = None

\* C12 (as claimed): an automatic trigger of a command schedule whose command
\* cannot be resolved saves a failure record for the schedule, leaves no
\* RunningExecution registered and moves the job to its next occurrence.
C12_CommandNotFoundFails ==
    [][\A id \in AllIds :
          (AutoTrigger(id) /\ Unresolvable(jobs[id].schedule) /\ NonCancelled(id) = {})
            => /\ \E i \in 1..Len(runHistory') :
                     /\ runHistory'[i].scheduleId = id
                     /\ runHistory'[i].status = "failure"
               /\ runningExecutions' = runningExecutions
               /\ Val(jobs'[id].nextRun) > now]_vars

StartedRuns(scheduleId) ==
    {r \in runningExecutions' \ runningExecutions : executions'[r].schedule.id = scheduleId}

\* C14 (as claimed): once disableSchedule(id) has completed and until
\* enableSchedule(id) is called, no timer or sweep starts an execution of
\* the schedule; and a completing enableSchedule computes the job's nextRun
\* from the current instant.
C14_DisabledStaysQuiet ==
    [][/\ \A id \in disabledIds :
             ((\E tm \in BagToSet(timers) : TimerFires(tm)) \/ Sweep)
                => StartedRuns(id) = {}
       /\ \A op \in Suspended :
             (/\ EnableScheduleDone(op)
              /\ IsSome(findSchedule(op.schedules, op.id))
              /\ validateCronExpression(Val(findSchedule(op.schedules, op.id)).cron))
                => /\ op.id \in DOMAIN jobs'
                   /\ jobs'[op.id].nextRun = getNextRunTime(jobs'[op.id].schedule.cron, now)]_vars

\* C15 (as claimed): whenever no schedule-management call is in progress,
\* every id in the jobs map is the id of a schedule that loadSchedules
\* returns with enabled = true.
C15_JobsAreEnabledSchedules ==
    ops = << >> =>
        \A id \in DOMAIN jobs :
            \E i \in 1..Len(loadSchedules) :
                loadSchedules[i].id = id /\ loadSchedules[i].enabled

\* The schedule objects scheduleJob is called with.
SchedulableSchedules ==
    ManagedSchedules \cup {loadSchedules[i] : i \in 1..Len(loadSchedules)}

\* C16 (as claimed): when the instant scheduleJob computed is not after the
\* clock it then reads (delay <= 0), the job it stores has a nextRun strictly
\* in the future and an armed timer, and no execution was started.
C16_PastDueRecomputed ==
    \A schedule \in SchedulableSchedules, t2 \in now..(now + 1) :
        LET nextRun == getNextRunTime(schedule.cron, now)
            st == scheduleJobAt(Cur, schedule, now, t2)
        IN (IsSome(nextRun) /\ Val(nextRun) - t2 <= 0)
             => /\ schedule.id \in DOMAIN st.jobs
                /\ Val(st.jobs[schedule.id].nextRun) > t2
                /\ st.jobs[schedule.id].timer
                /\ BagIn(Timer(schedule.id, Val(st.jobs[schedule.id].nextRun), TRUE), st.timers)
                /\ st.runningExecutions = runningExecutions

\* getSchedules returns a schedule with this id.
Listed(scheduleId) ==
    \E i \in 1..Len(loadSchedules) : loadSchedules[i].id = scheduleId

\* C17 (as claimed): once addSchedule(s) has completed successfully,
\* getSchedules contains s until removeSchedule(s.id) is called, whatever
\* add, update and remove calls on other ids overlap it.
C17_AddedStaysListed ==
    \A id \in addedIds : Listed(id)

\* C18: updateSchedule on an id that its loadSchedules did not return throws
\* not-found; the step leaves the schedule document, the overrides, the jobs
\* map and its timers as they are, the call is over, and it never reaches
\* onDidChangeEmitter.fire().
C18_UpdateUnknownChangesNothing ==
    [][\A op \in Suspended :
          (UpdateScheduleSave(op) /\ findSchedule(op.schedules, op.id) = None)
            => /\ UNCHANGED << repoSchedules, userOverrides, jobs, timers, intervals >>
               /\ ops' = removeFirst(ops, op)
               /\ \A ok \in BOOLEAN :
                     LET st == updateScheduleSave(CurAll, op, ok)
                     IN st.result = "notFound" /\ ~st.fired]_vars

\* C18 witness: an updateSchedule call for an id that is not stored is about
\* to run its check, while a job with an armed timer exists.
C18_Witness ==
    /\ \E op \in Suspended :
          /\ op.kind = "update" /\ op.pc = "loaded"
          /\ findSchedule(op.schedules, op.id) = None
          /\ ~Listed(op.id)
    /\ \E id \in DOMAIN jobs : CurrentTimers(timers, id) /= {}

\* C19 (as claimed): enableSchedule, disableSchedule and removeSchedule called
\* with an id that is not in storage leave the persisted overrides, the
\* persisted schedule list and the jobs map unchanged at the call and at
\* every later step of the call, and the call ends with an error.
C19_UnknownIdNoMutation ==
    [][/\ \A id \in ManagedIds :
             (~Listed(id) /\ (EnableSchedule(id) \/ DisableSchedule(id) \/ RemoveSchedule(id)))
                => UNCHANGED << repoSchedules, userOverrides, jobs >>
       /\ \A op \in Suspended :
             (/\ op.kind \in {"enable", "disable", "remove"}
              /\ ~Listed(op.id)
              /\ \/ EnableScheduleLoad(op) \/ EnableScheduleDone(op)
                 \/ DisableScheduleDone(op)
                 \/ RemoveScheduleSave(op) \/ RemoveScheduleDone(op))
                => /\ UNCHANGED << repoSchedules, userOverrides, jobs >>
                   /\ enableScheduleDone(CurAll, op, now).result /= "ok"
                   /\ disableScheduleDone(CurAll, op).result /= "ok"
                   /\ removeScheduleDone(CurAll, op).result /= "ok"]_vars

\* C20 (as claimed): a schedule with an invalid cron expression given to
\* addSchedule or updateSchedule (directly or by the editor's save) is
\* rejected: the saving step of the call leaves it out of the persisted
\* list, and it never enters the jobs map.
C20_InvalidCronRejected ==
    [][\A op \in Suspended :
          (/\ op.kind \in {"add", "update"}
           /\ ~validateCronExpression(Val(op.schedule).cron)
           /\ \/ AddScheduleSave(op) \/ AddScheduleDone(op)
              \/ UpdateScheduleSave(op) \/ UpdateScheduleDone(op))
            => /\ \A i \in 1..Len(repoSchedules') :
                     repoSchedules'[i].cron /= Val(op.schedule).cron
               /\ \A id \in DOMAIN jobs' :
                     jobs'[id].schedule.cron /= Val(op.schedule).cron]_vars

\* The schedule's cron expression cannot be evaluated.
Unevaluable(schedule) == getNextRunTime(schedule.cron, now) = None

EnabledValues(scheduleId) ==
    {loadSchedules[i].enabled : i \in {j \in 1..Len(loadSchedules) : loadSchedules[j].id = scheduleId}}

\* C22 (as claimed): a call that completes successfully has fired the change
\* event, a call that fails has not, and at the step that fires the event
\* storage and the jobs map show the call's result: the added schedule is
\* listed, the removed one is neither listed nor scheduled, the enabled one
\* reads enabled, the disabled one reads disabled and has no job.
C22_ChangeEventAfterDurable ==
    [][\A op \in Suspended :
          /\ \A ok \in BOOLEAN :
                /\ AddScheduleSave(op) => ~addScheduleSave(CurAll, op, ok).fired
                /\ UpdateScheduleSave(op) => ~updateScheduleSave(CurAll, op, ok).fired
                /\ RemoveScheduleSave(op) => ~removeScheduleSave(CurAll, op, ok).fired
          /\ EnableScheduleDone(op) =>
                LET st == enableScheduleDone(CurAll, op, now)
                IN /\ st.result = "ok" => st.fired
                   /\ st.fired => EnabledValues(op.id)' = {TRUE}
          /\ AddScheduleDone(op) =>
                /\ addScheduleDone(CurAll, op, now).fired
                /\ Listed(op.id)'
          /\ UpdateScheduleDone(op) =>
                /\ updateScheduleDone(CurAll, op, now).fired
                /\ \E i \in 1..Len(repoSchedules') : repoSchedules'[i] = Val(op.schedule)
          /\ RemoveScheduleDone(op) =>
                /\ removeScheduleDone(CurAll, op).fired
                /\ ~Listed(op.id)' /\ op.id \notin DOMAIN jobs'
          /\ DisableScheduleDone(op) =>
                /\ disableScheduleDone(CurAll, op).fired
                /\ TRUE \notin EnabledValues(op.id)' /\ op.id \notin DOMAIN jobs'
          /\ ReloadSchedulesDone(op) =>
                reloadSchedulesDone(CurAll, op, now).fired]_vars

\* What a call whose saveSchedules threw leaves behind: the error for the
\* caller, the jobs map and the timers untouched, no change event, and the
\* call is over.
RejectedBySave(st, op) ==
    /\ st.result = "writeFailed"
    /\ st.jobs = jobs /\ st.timers = timers /\ st.intervals = intervals
    /\ ~st.fired
    /\ st.ops = removeFirst(ops, op)

\* C23: when saveSchedules fails in addSchedule, updateSchedule (of a stored
\* id) or removeSchedule, the call rejects with the write error, the step
\* leaves the jobs map and its timers as they are, fires no change event,
\* and the call has no later step.
C23_SaveFailureLeavesRuntime ==
    [][\A op \in Suspended :
          /\ AddScheduleSave(op) =>
                /\ RejectedBySave(addScheduleSave(CurAll, op, FALSE), op)
                /\ ops' = removeFirst(ops, op) => UNCHANGED << jobs, timers, intervals >>
          /\ (UpdateScheduleSave(op) /\ findIndex(op.schedules, op.id) /= 0) =>
                /\ RejectedBySave(updateScheduleSave(CurAll, op, FALSE), op)
                /\ ops' = removeFirst(ops, op) => UNCHANGED << jobs, timers, intervals >>
          /\ RemoveScheduleSave(op) =>
                /\ RejectedBySave(removeScheduleSave(CurAll, op, FALSE), op)
                /\ ops' = removeFirst(ops, op) => UNCHANGED << jobs, timers, intervals >>]_vars

\* C23 witness: a removeSchedule of an id whose job has an armed timer is
\* about to save.
C23_Witness ==
    \E op \in OpsAt("remove", "loaded") :
        /\ op.id \in DOMAIN jobs
        /\ CurrentTimers(timers, op.id) /= {}

\* The persisted schedules and the jobs of the ids other than scheduleId.
OtherSchedules(repo, scheduleId) == SelectSeq(repo, LAMBDA s : s.id /= scheduleId)

OtherJobs(map, scheduleId) == [id \in DOMAIN map \ {scheduleId} |-> map[id]]

\* C24 (as claimed): the saving step of removeSchedule(id) leaves every other
\* persisted schedule as it was; when the call completes getSchedules holds
\* no schedule of that id, the jobs map has no entry for it and every other
\* job is as it was; and no timer or sweep starts an execution of an id that
\* has no entry in the jobs map.
C24_RemovedIsGone ==
    [][/\ \A op \in Suspended :
             (RemoveScheduleSave(op) /\ ops' /= removeFirst(ops, op))
                => /\ OtherSchedules(repoSchedules', op.id) = OtherSchedules(repoSchedules, op.id)
                   /\ ~Listed(op.id)'
       /\ \A op \in Suspended :
             RemoveScheduleDone(op)
                => /\ ~Listed(op.id)'
                   /\ op.id \notin DOMAIN jobs'
                   /\ OtherJobs(jobs', op.id) = OtherJobs(jobs, op.id)
       /\ \A id \in AllIds :
             (id \notin DOMAIN jobs /\ ((\E tm \in BagToSet(timers) : TimerFires(tm)) \/ Sweep))
                => StartedRuns(id) = {}]_vars

\* C25: the run history never holds more than 1000 records, and a save that
\* is written puts its record at index 0 and keeps behind it, in their
\* order, the records that were there, up to 1000 in all; so after more than
\* 1000 saves the history is the 1000 most recently saved records, newest
\* first.
C25_HistoryBoundedNewestFirst ==
    [][/\ Len(runHistory) <= HistoryCap /\ Len(runHistory') <= HistoryCap
       /\ runHistory' /= runHistory =>
             /\ runHistory'[1].runId = nextRunId
             /\ Len(runHistory') = Min(Len(runHistory) + 1, HistoryCap)
             /\ \A i \in 2..Len(runHistory') : runHistory'[i] = runHistory[i - 1]
             /\ nextRunId > HistoryCap =>
                   \A i \in 1..HistoryCap : runHistory'[i].runId = nextRunId - i + 1]_vars

\* C25 witness: 1001 records have been saved, the history holds 1000, the
\* newest is at index 0 and the oldest one kept is the second one saved.
C25_Witness ==
    /\ nextRunId = HistoryCap + 2
    /\ Len(runHistory) = HistoryCap
    /\ runHistory[1].runId = HistoryCap + 1
    /\ runHistory[HistoryCap].runId = 2

\* The override of the id has an enabled value.
HasEnabledOverride(scheduleId) ==
    scheduleId \in DOMAIN userOverrides /\ IsSome(userOverrides[scheduleId])

\* C26: loadSchedules returns one schedule per schedule of the document, in
\* the document's order; its enabled is the override's enabled value when
\* the id has an override with an enabled value and the document's
\* otherwise, and every other field is the document's.  Overrides of ids
\* that are not in the document add nothing.
C26_OverridePrecedence ==
    /\ Len(loadSchedules) = Len(repoSchedules)
    /\ \A i \in 1..Len(repoSchedules) :
          /\ loadSchedules[i].enabled =
                IF HasEnabledOverride(repoSchedules[i].id)
                THEN Val(userOverrides[repoSchedules[i].id])
                ELSE repoSchedules[i].enabled
          /\ [loadSchedules[i] EXCEPT !.enabled = repoSchedules[i].enabled] = repoSchedules[i]

\* C26 witness: the document's only schedule s1 is enabled and overridden to
\* disabled, and there is an override for s2, which the document does not
\* hold: loadSchedules returns the one schedule, disabled.
C26_Witness ==
    /\ Len(repoSchedules) = 1
    /\ repoSchedules[1].id = "s1" /\ repoSchedules[1].enabled
    /\ userOverrides = [id \in ManagedIds |-> IF id = "s1" THEN Some(FALSE) ELSE Some(TRUE)]
    /\ Len(loadSchedules) = 1 /\ ~loadSchedules[1].enabled

\* The overrides of the ids other than scheduleId.
OtherOverrides(map, scheduleId) == [id \in DOMAIN map \ {scheduleId} |-> map[id]]

\* Only the override and the job of scheduleId may have changed: the schedule
\* document, the other overrides and the other jobs are as before.
OnlyOverrideAndJob(scheduleId) ==
    /\ repoSchedules' = repoSchedules
    /\ OtherOverrides(userOverrides', scheduleId) = OtherOverrides(userOverrides, scheduleId)
    /\ OtherJobs(jobs', scheduleId) = OtherJobs(jobs, scheduleId)

\* C27: no step of enableSchedule or disableSchedule writes the schedule
\* document; each changes at most the override and the job of its id.
C27_EnableDisableKeepDocument ==
    [][/\ \A id \in ManagedIds :
             (EnableSchedule(id) \/ DisableSchedule(id)) => OnlyOverrideAndJob(id)
       /\ \A op \in Suspended :
             (EnableScheduleLoad(op) \/ EnableScheduleDone(op) \/ DisableScheduleDone(op))
                => OnlyOverrideAndJob(op.id)]_vars

\* C27 witness: disableSchedule has completed for a schedule the document
\* holds as enabled: the override says disabled, the job is gone, and the
\* document still says enabled.
C27_Witness ==
    \E id \in disabledIds :
        /\ ops = << >>
        /\ userOverrides[id] = Some(FALSE)
        /\ id \notin DOMAIN jobs
        /\ \E i \in 1..Len(repoSchedules) :
              repoSchedules[i].id = id /\ repoSchedules[i].enabled

\* Some other schedule has a run in the running-executions map that is not
\* cancelled.
OtherRunning(scheduleId) ==
    \E r \in runningExecutions :
        executions[r].schedule.id /= scheduleId /\ ~executions[r].cancelled

\* C28: whatever runs of other schedules are in progress, an automatic
\* trigger of a job whose own schedule is not running and whose command
\* resolves starts its run and arms the job for the next occurrence, and a
\* manual run of a schedule that is not itself running is never rejected as
\* busy.
C28_SchedulesIndependent ==
    [][/\ \A id \in AllIds :
             (/\ AutoTrigger(id)
              /\ NonCancelled(id) = {}
              /\ ~Unresolvable(jobs[id].schedule))
                => /\ StartedRuns(id) /= {}
                   /\ jobs'[id].nextRun = getNextRunTime(jobs[id].schedule.cron, now)
                   /\ BagIn(Timer(id, Val(jobs'[id].nextRun), TRUE), timers')
       /\ \A saveOk \in BOOLEAN :
             /\ \A id \in AllIds :
                   NonCancelled(id) = {}
                      => runSchedule(Cur, loadSchedules, id, now, saveOk).result /= "alreadyRunning"
             /\ \A schedule \in DirectSchedules \cup SchedulableSchedules :
                   NonCancelled(schedule.id) = {}
                      => runScheduleDirect(Cur, schedule, now, saveOk).result /= "alreadyRunning"]_vars

\* C28 witness: a run of one schedule that has not returned is in the map,
\* and a run of another schedule was started by its trigger a minute later.
C28_Witness ==
    \E r1 \in runningExecutions, r2 \in runningExecutions :
        /\ executions[r1].schedule.id /= executions[r2].schedule.id
        /\ ~executions[r1].cancelled /\ ~executions[r2].cancelled
        /\ r1 \in DOMAIN tasks /\ tasks[r1].pc = "runner"
        /\ executions[r2].startTime > executions[r1].startTime
        /\ executions[r2].startTime = now

\* The runs whose Agent Runner call has not returned and that nobody
\* cancelled.
Stuck ==
    {r \in DOMAIN tasks : tasks[r].pc = "runner" /\ ~executions[r].cancelled}

\* C29: a run whose Agent Runner call has not returned and that is not
\* cancelled stays in the running-executions map through every step other
\* than the runner returning or cancelExecution, however long ago it started
\* and whatever its max runtime; meanwhile no record of it is in the run
\* history, no timer or sweep starts a run of its schedule, and every manual
\* run of its schedule is rejected and starts nothing.
C29_NoPreemptiveTimeout ==
    [][\A r \in Stuck :
          LET id == executions[r].schedule.id
          IN /\ r \in runningExecutions
             /\ \A i \in HistoryIndices : runHistory[i].runId /= r
             /\ (~(\E success \in BOOLEAN : RunnerReturns(r, success)) /\ ~CancelExecution(r))
                   => /\ r \in Stuck'
                      /\ r \in runningExecutions'
                      /\ StartedRuns(id) = {}
             /\ \A saveOk \in BOOLEAN :
                   /\ LET st == runSchedule(Cur, loadSchedules, id, now, saveOk)
                      IN st.result \in {"alreadyRunning", "notFound"} /\ NothingStarted(st)
                   /\ \A schedule \in DirectSchedules :
                         schedule.id = id =>
                            LET st == runScheduleDirect(Cur, schedule, now, saveOk)
                            IN st.result = "alreadyRunning" /\ NothingStarted(st)]_vars

\* C29 witness: a run with a max runtime has been in the Agent Runner for
\* longer than that, nobody cancelled it, and the trigger of its schedule
\* that came due meanwhile was skipped: the job waits for the next minute.
C29_Witness ==
    \E r \in Stuck :
        LET schedule == executions[r].schedule
        IN /\ schedule.maxRuntime /= 0
           /\ ElapsedSeconds(executions[r].startTime, now) > schedule.maxRuntime
           /\ schedule.id \in DOMAIN jobs
           /\ jobs[schedule.id].nextRun = Some(now + 1)
           /\ \A i \in HistoryIndices : runHistory[i].runId /= r

\* The step is a timer or the sweep calling executeSchedule.
TriggerStep == (\E tm \in BagToSet(timers) : TimerFires(tm)) \/ Sweep

\* The step is a manual run.
ManualStep ==
    \/ \E id \in ScheduleIds : RunSchedule(id)
    \/ \E schedule \in TestSchedules : RunScheduleDirect(schedule)

IsOccurrence(cron, t) == CronPeriod(cron) > 0 /\ t % CronPeriod(cron) = 0

HasPlaceholder(text) ==
    \E i \in 1..Len(VariableKeys) :
        \E j \in 1..Len(text) :
            /\ j + Len(Placeholder(VariableKeys[i])) - 1 <= Len(text)
            /\ SubSeq(text, j, j + Len(Placeholder(VariableKeys[i])) - 1) = Placeholder(VariableKeys[i])

\* A prompt with every value put back to the placeholder it stands for.
RECURSIVE Restored(_)
Restored(text) ==
    IF text = << >> THEN << >>
    ELSE (IF Head(text).kind = "value" THEN Placeholder(Head(text).s) ELSE << Head(text) >>)
         \o Restored(Tail(text))

\* C32: substituteVariables replaces every occurrence of {datetime}, {date},
\* {time} and {timestamp} by a value taken at the instant of the call, keeps
\* every other piece of the template (unrecognized placeholders included)
\* as it was, and returns a template without a recognized placeholder
\* unchanged.
C32_SubstitutionTotalAndVerbatim ==
    [][SubstituteVariables =>
        LET template == repoSchedules[1].promptTemplate
            result == Val(prompt')
        IN /\ ~HasPlaceholder(result)
           /\ \A i \in 1..Len(result) : result[i].kind = "value" => result[i].at = now
           /\ Restored(result) = template
           /\ ~HasPlaceholder(template) => result = template]_vars

\* "{date}{x}" was substituted at instant 1: the date is filled in, "{x}"
\* is still there.
C32_Witness ==
    /\ repoSchedules[1].promptTemplate
         = << Text("{"), Text("date"), Text("}"), Text("{"), Text("x"), Text("}") >>
    /\ prompt = Some(<< Value("date", 1), Text("{"), Text("x"), Text("}") >>)

\* The pending trigger timers of a schedule id.
PendingTimers(scheduleId) == {tm \in BagToSet(timers) : tm.sid = scheduleId}

\* C33 (as claimed): at most one trigger timer is pending per schedule id,
\* and every pending trigger timer is the one the jobs-map entry of its id
\* holds.
C33_OneTimerPerSchedule ==
    \A scheduleId \in AllIds :
        /\ \A tm \in PendingTimers(scheduleId) :
              /\ CopiesIn(tm, timers) = 1
              /\ tm.current
              /\ scheduleId \in DOMAIN jobs
              /\ jobs[scheduleId].timer
        /\ Cardinality(PendingTimers(scheduleId)) <= 1

\* The job of the id has a nextRun that is reached.
Due(scheduleId) ==
    /\ scheduleId \in DOMAIN jobs
    /\ IsSome(jobs[scheduleId].nextRun)
    /\ Val(jobs[scheduleId].nextRun) <= now

\* The job of the id holds a timer that is pending at its nextRun.
Armed(scheduleId) ==
    /\ scheduleId \in DOMAIN jobs
    /\ jobs[scheduleId].timer
    /\ IsSome(jobs[scheduleId].nextRun)
    /\ BagIn(Timer(scheduleId, Val(jobs[scheduleId].nextRun), TRUE), timers)

\* Every job in the map is armed or due.
ArmedOrDue == \A scheduleId \in DOMAIN jobs : Armed(scheduleId) \/ Due(scheduleId)

\* C34: every job in the jobs map has a timer armed for its nextRun or a
\* nextRun that is reached, which the sweep looks for (the sweep runs and
\* the schedule of the job is enabled); and a job whose nextRun is reached
\* is triggered, which moves its nextRun past the clock, or leaves the map
\* (as long as run ids are left to start a run with).
C34_NoJobStuck ==
    /\ [](ArmedOrDue /\ (jobs /= EmptyMap => intervals > 0)
                     /\ \A scheduleId \in DOMAIN jobs : jobs[scheduleId].schedule.enabled)
    /\ \A scheduleId \in AllIds :
          (Due(scheduleId) /\ nextRunId <= MaxRuns)
             ~> (~Due(scheduleId) \/ nextRunId > MaxRuns)

\* C34 witness: scheduleJob took its past-due branch, so that the job has a
\* nextRun that is reached and no timer is pending for it: only the sweep
\* triggers it.
C34_Witness ==
    /\ Due("s1")
    /\ ~jobs["s1"].timer
    /\ PendingTimers("s1") = {}
    /\ intervals > 0
    /\ runHistory = << >>

\* What the claim says of cancelExecution(runId) for a run in the map, at
\* the moment it is suspended at its saveRunRecord (or that save rejected):
\* the flag is set, the schedule is not running, execute is accepted.
ReleasedBy(runId) ==
    \A saveOk \in BOOLEAN :
        LET st == cancelExecution(Cur, runId, now, saveOk)
            schedule == executions[runId].schedule
        IN /\ runId \in st.runningExecutions
           /\ st.executions[runId].cancelled
           /\ ~isScheduleRunningIn(st, schedule.id)
           /\ \A ok \in BOOLEAN : execute(st, schedule, now, ok).result /= "alreadyRunning"

\* cancelExecution(runId) for a run id that is not in the map returns false
\* and writes nothing.
RefusedFor(runId) ==
    \A saveOk \in BOOLEAN :
        LET st == cancelExecution(Cur, runId, now, saveOk)
        IN /\ st.result = "false"
           /\ st.runHistory = runHistory
           /\ st.executions = executions
           /\ st.runningExecutions = runningExecutions

\* C35 (as claimed): cancelExecution(runId) of any run in the map releases
\* the single-flight lock of its schedule at once, before its history write
\* completes and before the runner returns; for a run id not in the map it
\* returns false and writes no record.
C35_CancelReleasesLock ==
    \A runId \in RunIds :
        IF runId \in runningExecutions THEN ReleasedBy(runId) ELSE RefusedFor(runId)

\* cancelExecution(runId) of a run that was cancelled before leaves the lock
\* of its schedule as it was.
LockKeptBy(runId) ==
    \A saveOk \in BOOLEAN :
        LET st == cancelExecution(Cur, runId, now, saveOk)
            scheduleId == executions[runId].schedule.id
        IN /\ st.executions[runId].cancelled
           /\ isScheduleRunningIn(st, scheduleId) = isScheduleRunning(scheduleId)

\* C35 (amended): cancelExecution(runId) of a run in the map that was not
\* cancelled before releases the single-flight lock of its schedule at
\* once; of a run cancelled before, it leaves the lock as it was (a later
\* run of the schedule may hold it); for a run id not in the map it returns
\* false and writes no record.
C35_CancelReleasesLock_Amended ==
    \A runId \in RunIds :
        IF runId \notin runningExecutions THEN RefusedFor(runId)
        ELSE IF executions[runId].cancelled THEN LockKeptBy(runId)
        ELSE ReleasedBy(runId)

\* C35 witness: run 1 is cancelled, its history write is not complete and
\* its runner has not returned, and a second run of the same schedule was
\* accepted and is in progress.
C35_Witness ==
    /\ {1, 2} \subseteq runningExecutions
    /\ executions[1].cancelled
    /\ pendingCancels[1] > 0
    /\ tasks[1].pc = "runner"
    /\ executions[2].schedule.id = executions[1].schedule.id
    /\ ~executions[2].cancelled

\* The ids of the schedules storage reports enabled with an evaluable cron.
EnabledEvaluableIds ==
    {loadSchedules[i].id : i \in {k \in 1..Len(loadSchedules) :
                                     /\ loadSchedules[k].enabled
                                     /\ IsSome(getNextRunTime(loadSchedules[k].cron, now))}}

\* C36 (as claimed): when reloadSchedules completes, the jobs map holds a
\* job for exactly the ids storage reports enabled with an evaluable cron,
\* and the only timers pending are the ones of those jobs: every timer armed
\* before the reload is cancelled.
C36_ReloadRebuildsJobs ==
    [][\A op \in Suspended :
          (op.kind = "reload" /\ ReloadSchedulesDone(op)) =>
             /\ DOMAIN jobs' = EnabledEvaluableIds'
             /\ \A tm \in BagToSet(timers') :
                   /\ tm.current
                   /\ CopiesIn(tm, timers') = 1
                   /\ tm.sid \in DOMAIN jobs'
                   /\ jobs'[tm.sid].nextRun = Some(tm.due)]_vars

\* C37 (as claimed): at most one sweep interval is active at any time, and
\* after dispose none is.
C37_OneSweepInterval ==
    /\ intervals <= 1
    /\ disposed => intervals = 0

\* C38 (as claimed): when updateSchedule(s) completes with no other call in
\* progress, loadSchedules reports s.id with enabled equal to s.enabled, and
\* a job for s.id is in the jobs map exactly when that value is true (for
\* an evaluable cron), right after the call and after a reloadSchedules
\* that follows.
C38_UpdateEnabledDurable ==
    [][\A op \in Suspended :
          (op.kind = "update" /\ ops = << op >> /\ UpdateScheduleDone(op)) =>
             LET reported == findSchedule(loadSchedules', op.id)
                 reloaded == initialize(unscheduleFrom(CurAll', 1), loadSchedules', now')
             IN /\ IsSome(reported)
                /\ Val(reported).enabled = Val(op.schedule).enabled
                /\ validateCronExpression(Val(op.schedule).cron) =>
                      /\ (op.id \in DOMAIN jobs') = Val(reported).enabled
                      /\ (op.id \in DOMAIN reloaded.jobs) = Val(reported).enabled]_vars

\* C39 (as claimed): no two schedules of the persisted list share an id.
C39_PersistedIdsUnique ==
    \A i, j \in 1..Len(repoSchedules) :
        i /= j => repoSchedules[i].id /= repoSchedules[j].id

\* C40 (as claimed): once dispose has run, the jobs map is empty, no trigger
\* timer is pending and no step starts an execution.
C40_DisposeIsFinal ==
    /\ [](disposed => (jobs = EmptyMap /\ timers = EmptyBag))
    /\ [][disposed => runningExecutions' \subseteq runningExecutions]_vars

====
